---------------------------- MODULE Spec2Model ----------------------------
(***************************************************************************)
(* A model of the metadata deployment pipeline of src/draft.js (the final  *)
(* variant, lines 526-1239): the ConcurrencyManager, the file materializer *)
(* copyFileWithStructure with its registry and advisory locks, and the     *)
(* three phases identifyNewMetadata, sanitizeMetadata and                  *)
(* generateDeployPackages as they run on the JavaScript event loop.        *)
(*                                                                         *)
(* Event loop.  A synchronous segment runs to its end; `micro` is the FIFO *)
(* queue of promise jobs, drained completely before the next macrotask;    *)
(* `io` is the set of pending macrotasks (file operations and timers),     *)
(* which complete in any order, one at a time, only when `micro` is empty. *)
(* Every `await` of an already settled promise, and every settling of a    *)
(* promise somebody awaits, costs one job.                                 *)
(*                                                                         *)
(* Paths.  A path is a record [root, dirs, stem, meta]: the tree it lives  *)
(* in, its directory segments below that tree's root, and its file name    *)
(* split into the name without the descriptor suffix and whether the       *)
(* suffix "-meta.xml" follows.  "-meta.xml" occurs nowhere else in a path. *)
(*                                                                         *)
(* Texts.  A text is a sequence of tokens; " " and "\n" are the whitespace *)
(* characters, a marker such as "<standardValue>" is one token.            *)
(***************************************************************************)
EXTENDS Integers, Sequences, FiniteSets, Bags, TLC

\* ------------------------------------------------------------------ bounds
\* os.cpus().length is drawn from 1..MaxCpus.
MaxCpus == 2
\* The source tree holds at most MaxFiles files of the universe.
MaxFiles == 2
\* The manager harness passes at most MaxTasks tasks to run().
MaxTasks == 3
\* A pattern list of an exception rule holds at most MaxPatterns patterns.
MaxPatterns == 2
\* A class text given to removeComments on its own holds at most MaxChars
\* characters.
MaxChars == 6
\* A node of a tree given to removeElement or removeElements on its own has
\* at most MaxChildren children.
MaxChildren == 2

\* ------------------------------------------------------------------- paths
SOURCE == "source"
TARGET == "target"
NEWS_DIR == "news"
SANITIZED_DIR == "sanitized"

MkPath(root, dirs, stem, meta) ==
    [root |-> root, dirs |-> dirs, stem |-> stem, meta |-> meta]

\* path.join(base, path.relative(oldBase, p)) for a p that lies under oldBase.
Rebase(p, base) == [p EXCEPT !.root = base]

\* path.dirname(p): a directory is a path with an empty file name.
DirOf(p) == MkPath(p.root, p.dirs, "", FALSE)

fileCounterPath(p) == [p EXCEPT !.meta = ~p.meta]

\* The prefix of every relative path when sourcePath is the project root.
PROJECT_PREFIX == <<"force-app", "main", "default">>

\* ------------------------------------------------------------------- texts
IsSpace(c) == c \in {" ", "\n"}

\* The end of the whitespace run that starts at i: the first q >= i that is
\* past the end or holds a character that is no whitespace.
RECURSIVE RunEnd(_, _)
RunEnd(s, i) ==
    IF i > Len(s) \/ ~IsSpace(s[i]) THEN i ELSE RunEnd(s, i + 1)

\* `$` under the m flag: at the end of the text or before a line break.
AtLineEnd(s, r) == r = Len(s) + 1 \/ s[r] = "\n"

\* `^` under the m flag: at the start of the text or after a line break.
AtLineStart(s, i) == i = 1 \/ s[i - 1] = "\n"

\* The text from position i on with every match of /^\s+|\s+$/gm removed.
\* At a whitespace character at a line start the first alternative takes the
\* whole run; elsewhere the second alternative takes the run greedily and
\* backtracks to the last position of it that is a line end.
RECURSIVE StripFrom(_, _)
StripFrom(s, i) ==
    IF i > Len(s) THEN << >>
    ELSE IF ~IsSpace(s[i]) THEN <<s[i]>> \o StripFrom(s, i + 1)
    ELSE LET q == RunEnd(s, i)
             ends == {r \in (i + 1)..q : AtLineEnd(s, r)}
         IN  IF AtLineStart(s, i) THEN StripFrom(s, q)
             ELSE IF ends # {}
                  THEN StripFrom(s, CHOOSE r \in ends : \A x \in ends : x <= r)
                  ELSE <<s[i]>> \o StripFrom(s, i + 1)

\* A comparison of the bytes as they are (sensitivity variant of Normalize).
NormalizeNone(s) == s

\* content.replace(/^\s+|\s+$/gm, '')
Normalize(s) == StripFrom(s, 1)

\* xmlContent.includes(marker), a marker being one token.
Includes(s, marker) == \E i \in 1..Len(s) : s[i] = marker

STANDARD_VALUE == "<standardValue>"
FILTER_SCOPE_MINE == "<filterScope>Mine</filterScope>"

TextPlain == <<"a", "\n", " ", "b">>
TextOther == <<"a", "\n", " ", "c">>
TextMine == <<"a", "\n", " ", FILTER_SCOPE_MINE>>
TextStandardValue == <<"a", "\n", " ", STANDARD_VALUE>>

\* The same text with other indentation, trailing blanks and a blank line.
Reindent(s) == <<" ">> \o s \o <<" ", "\n", "\n">>

\* ----------------------------------------------------------- XML documents
\* A document is a text whose tokens are tags, whitespace characters and
\* pieces of character data.  The element names of the model:
ElementNames ==
    {"ValidationRule", "active", "fullName", "FlowDefinition",
     "activeVersionNumber", "PermissionSet", "label", "userPermissions",
     "CustomObject", "actionOverrides", "actionName", "type",
     "compactLayoutAssignment", "ApexTrigger", "status", "CustomField"}

Open(n) == "<" \o n \o ">"
Close(n) == "</" \o n \o ">"
SelfClose(n) == "<" \o n \o "/>"

OpenTags == {Open(n) : n \in ElementNames}
CloseTags == {Close(n) : n \in ElementNames}
SelfCloseTags == {SelfClose(n) : n \in ElementNames}

IsOpen(tok) == tok \in OpenTags
IsClose(tok) == tok \in CloseTags
IsSelfClose(tok) == tok \in SelfCloseTags
IsTag(tok) == IsOpen(tok) \/ IsClose(tok) \/ IsSelfClose(tok)

\* The element name of each tag.
TagNames ==
    [tok \in OpenTags \cup CloseTags \cup SelfCloseTags |->
        CHOOSE n \in ElementNames : tok \in {Open(n), Close(n), SelfClose(n)}]
NameOf(tok) == TagNames[tok]

\* The nodes of the non-compact form of xml-js: an element has a name and,
\* with content, the array `elements`; a text node has `text`.  A field that
\* the library leaves out is empty here.
Element(name, elements) ==
    [type |-> "element", name |-> name, text |-> << >>, elements |-> elements]
TextNode(text) ==
    [type |-> "text", name |-> "", text |-> text, elements |-> << >>]
Root(elements) ==
    [type |-> "root", name |-> "", text |-> << >>, elements |-> elements]

ParseError == [ok |-> FALSE, elements |-> << >>, next |-> 0]

\* The end of the character data that starts at position i.
RECURSIVE TextEnd(_, _)
TextEnd(toks, i) ==
    IF i > Len(toks) \/ IsTag(toks[i]) THEN i ELSE TextEnd(toks, i + 1)

\* The content of the element `parent` from position i on, as the strict sax
\* parser under xml2js reads it ("" is the document level): character data
\* that is whitespace only is dropped, other character data outside the root
\* element, a closing tag that closes nothing or another element, and an
\* element left open at the end of the text are errors.
RECURSIVE ParseContent(_, _, _)
ParseContent(toks, i, parent) ==
    IF i > Len(toks)
    THEN IF parent = "" THEN [ok |-> TRUE, elements |-> << >>, next |-> i]
         ELSE ParseError
    ELSE IF IsClose(toks[i])
    THEN IF parent # "" /\ toks[i] = Close(parent)
         THEN [ok |-> TRUE, elements |-> << >>, next |-> i + 1]
         ELSE ParseError
    ELSE IF IsSelfClose(toks[i])
    THEN LET rest == ParseContent(toks, i + 1, parent)
         IN  IF rest.ok
             THEN [rest EXCEPT !.elements = <<Element(NameOf(toks[i]), << >>)>> \o @]
             ELSE ParseError
    ELSE IF IsOpen(toks[i])
    THEN LET inner == ParseContent(toks, i + 1, NameOf(toks[i]))
             rest == ParseContent(toks, inner.next, parent)
         IN  IF inner.ok /\ rest.ok
             THEN [rest EXCEPT !.elements =
                      <<Element(NameOf(toks[i]), inner.elements)>> \o @]
             ELSE ParseError
    ELSE LET j == TextEnd(toks, i)
             text == SubSeq(toks, i, j - 1)
             blank == \A k \in 1..Len(text) : IsSpace(text[k])
             rest == ParseContent(toks, j, parent)
         IN  IF ~blank /\ parent = "" THEN ParseError
             ELSE IF ~rest.ok THEN ParseError
             ELSE IF blank THEN rest
             ELSE [rest EXCEPT !.elements = <<TextNode(text)>> \o @]

\* convert.xml2js(xmlStr, { compact: false, spaces: 4 }); it throws on a text
\* that is not well formed (ok is FALSE then).
parseXml(xmlStr) ==
    LET r == ParseContent(xmlStr, 1, "")
    IN  [ok |-> r.ok, xmlObj |-> Root(r.elements)]

\* js2xml's writeIndentation with spaces: 4.
writeIndentation(depth, firstLine) ==
    (IF firstLine THEN << >> ELSE <<"\n">>) \o [k \in 1..(4 * depth) |-> " "]

\* js2xml's hasContent: a child that is no text node.
hasContent(element) ==
    \E k \in 1..Len(element.elements) : element.elements[k].type # "text"

\* js2xml's writeElements and writeElement: an element with children goes on
\* a line of its own, indented by its depth, a text stays on the line of its
\* element, and an element without children is written <name/>.
RECURSIVE writeElements(_, _, _)
writeElements(elements, depth, firstLine) ==
    IF elements = << >> THEN << >>
    ELSE LET element == Head(elements)
             written ==
                 IF element.type = "text" THEN element.text
                 ELSE writeIndentation(depth, firstLine) \o
                      (IF element.elements = << >>
                       THEN <<SelfClose(element.name)>>
                       ELSE <<Open(element.name)>> \o
                            writeElements(element.elements, depth + 1, FALSE) \o
                            (IF hasContent(element)
                             THEN writeIndentation(depth, FALSE) ELSE << >>) \o
                            <<Close(element.name)>>)
         IN  written \o writeElements(Tail(elements), depth, FALSE)

\* convert.js2xml(jsonObj, { compact: false, spaces: 4 })
buildXml(jsonObj) == writeElements(jsonObj.elements, 0, TRUE)

\* The node of xmlObj at a position: the indices of the children taken from
\* xmlObj down.
RECURSIVE NodeAt(_, _)
NodeAt(xmlObj, pos) ==
    IF pos = << >> THEN xmlObj ELSE NodeAt(xmlObj.elements[Head(pos)], Tail(pos))

\* xmlObj with the node at a position replaced.
RECURSIVE ReplaceAt(_, _, _)
ReplaceAt(xmlObj, pos, node) ==
    IF pos = << >> THEN node
    ELSE [xmlObj EXCEPT !.elements[Head(pos)] = ReplaceAt(@, Tail(pos), node)]

\* findElement(xmlObj, nodeName): the first element of that name in document
\* order below xmlObj, as its position; << >> is null.
RECURSIVE findElementFrom(_, _, _)
findElementFrom(xmlObj, nodeName, i) ==
    IF i > Len(xmlObj.elements) THEN << >>
    ELSE LET elem == xmlObj.elements[i]
             found == findElementFrom(elem, nodeName, 1)
         IN  IF elem.name = nodeName THEN <<i>>
             ELSE IF found # << >> THEN <<i>> \o found
             ELSE findElementFrom(xmlObj, nodeName, i + 1)

findElement(xmlObj, nodeName) == findElementFrom(xmlObj, nodeName, 1)

\* removeElements(xmlObj, nodeName): xmlObj after the call, which has removed
\* every element of that name at every depth; the call returns true when the
\* result differs from xmlObj.
RECURSIVE removeElements(_, _)
removeElements(xmlObj, nodeName) ==
    LET kept == SelectSeq(xmlObj.elements, LAMBDA e : e.name # nodeName)
    IN  [xmlObj EXCEPT !.elements =
            [k \in 1..Len(kept) |-> removeElements(kept[k], nodeName)]]

\* Lines 623-634 with the result of the calls on the children dropped
\* (sensitivity variant).
removeElementsReturnsShallow(xmlObj, nodeName) ==
    \E i \in 1..Len(xmlObj.elements) : xmlObj.elements[i].name = nodeName

\* Lines 623-634: what removeElements(xmlObj, nodeName) returns.  `modified`
\* is set by a child of that name and by a call on another child that
\* returns true.
RECURSIVE removeElementsReturns(_, _)
removeElementsReturns(xmlObj, nodeName) ==
    \E i \in 1..Len(xmlObj.elements) :
        IF xmlObj.elements[i].name = nodeName THEN TRUE
        ELSE removeElementsReturns(xmlObj.elements[i], nodeName)

\* removeElement(xmlObj, nodeName): xmlObj after the call.  A child of that
\* name is removed, the first one, and the call is over; without such a child
\* the call is made on every child.
RECURSIVE removeElement(_, _)
removeElement(xmlObj, nodeName) ==
    LET hits == {k \in 1..Len(xmlObj.elements) : xmlObj.elements[k].name = nodeName}
        index == CHOOSE k \in hits : \A h \in hits : k <= h
    IN  IF hits # {}
        THEN [xmlObj EXCEPT !.elements =
                 SubSeq(@, 1, index - 1) \o SubSeq(@, index + 1, Len(@))]
        ELSE [xmlObj EXCEPT !.elements =
                 [k \in 1..Len(@) |-> removeElement(@[k], nodeName)]]

\* node.elements[0].text; reading it throws a TypeError when the node has no
\* `elements`.
HasFirst(node) == node.elements # << >>
FirstText(node) == node.elements[1].text

\* `key in ['ResumeBilling']`: whether key names a property of the array, its
\* index "0" or "length" or a name it inherits, and not whether it is one of
\* its values.  No text of the model names an inherited property.
InDenyArray(key) == key \in {<<"0">>, <<"length">>}

\* Lines 653-664 for one element: the verdict of the filter callback on an
\* actionOverrides element, when the callback does not throw.
RemovesOverride(elem) ==
    LET typeElem == findElement(elem, "type")
        actionName == findElement(elem, "actionName")
    IN  /\ elem.name = "actionOverrides"
        /\ typeElem # << >>
        /\ HasFirst(NodeAt(elem, typeElem))
        /\ \/ FirstText(NodeAt(elem, typeElem)) # <<"Default">>
           \/ /\ actionName # << >>
              /\ InDenyArray(FirstText(NodeAt(elem, typeElem)))

\* The same callback throws a TypeError: the type element is empty, or it is
\* absent from an override that has an action name.
OverrideThrows(elem) ==
    LET typeElem == findElement(elem, "type")
        actionName == findElement(elem, "actionName")
    IN  /\ elem.name = "actionOverrides"
        /\ \/ typeElem # << >> /\ ~HasFirst(NodeAt(elem, typeElem))
           \/ typeElem = << >> /\ actionName # << >>

\* The filter of lines 652-667 without the call of line 665 on the elements
\* it keeps (sensitivity variant of processActionOverrides).
processActionOverridesTop(xmlObj) ==
    [xmlObj EXCEPT !.elements = SelectSeq(@, LAMBDA e : ~RemovesOverride(e))]

\* processActionOverrides(xmlObj): xmlObj after the call; the call returns
\* true when the result differs from xmlObj.
RECURSIVE processActionOverrides(_)
processActionOverrides(xmlObj) ==
    LET kept == SelectSeq(xmlObj.elements, LAMBDA e : ~RemovesOverride(e))
    IN  [xmlObj EXCEPT !.elements =
            [k \in 1..Len(kept) |-> processActionOverrides(kept[k])]]

\* processActionOverrides(xmlObj) ends in a TypeError.
RECURSIVE processActionOverridesThrows(_)
processActionOverridesThrows(xmlObj) ==
    \E k \in 1..Len(xmlObj.elements) :
        \/ OverrideThrows(xmlObj.elements[k])
        \/ /\ ~RemovesOverride(xmlObj.elements[k])
           /\ processActionOverridesThrows(xmlObj.elements[k])

\* ---------------------------------------------------------------- documents
\* The descriptors of the model, laid out with one space of indentation and
\* a final line break (the layout buildXml writes has four and none).
Leaf(n, text) == <<Open(n), text, Close(n)>>
Line(toks) == <<"\n", " ">> \o toks
Doc(n, lines) == <<Open(n)>> \o lines \o <<"\n", Close(n), "\n">>

TextTrigger == Doc("ApexTrigger", Line(Leaf("status", "Active")))
TextField == Doc("CustomField", Line(Leaf("fullName", "Foo")))

\* Validation rules: active, inactive, without the active element, and one
\* whose root element is never closed.
TextRuleActive == Doc("ValidationRule", Line(Leaf("active", "true")))
TextRuleInactive == Doc("ValidationRule", Line(Leaf("active", "false")))
TextRuleNoActive == Doc("ValidationRule", Line(Leaf("fullName", "R")))
TextRuleMalformed == <<Open("ValidationRule")>> \o Line(Leaf("active", "true"))

\* Flow definitions: active, inactive, and one that names two versions.
TextFlowActive == Doc("FlowDefinition", Line(Leaf("activeVersionNumber", "3")))
TextFlowInactive == Doc("FlowDefinition", Line(Leaf("fullName", "F")))
TextFlowTwoVersions ==
    Doc("FlowDefinition",
        Line(Leaf("activeVersionNumber", "3")) \o
        Line(Leaf("activeVersionNumber", "4")))

\* Permission sets: a label and a permission, and an empty one.
TextPermissionSet ==
    Doc("PermissionSet",
        Line(Leaf("label", "P")) \o Line(Leaf("userPermissions", "x")))
TextPermissionSetEmpty == <<Open("PermissionSet"), Close("PermissionSet")>>

\* An action override of an object.
Override(actionName, type) ==
    <<Open("actionOverrides")>> \o Leaf("actionName", actionName) \o
    Leaf("type", type) \o <<Close("actionOverrides")>>

\* Objects: a standard and a custom override; the same with the custom
\* override inside a field; the override of the denylisted action; an
\* object without overrides that has a compact layout; one with neither.
TextObjectOverrides ==
    Doc("CustomObject",
        Line(Override("Edit", "Default")) \o Line(Override("View", "Flexipage")))
TextObjectNested ==
    Doc("CustomObject",
        Line(Override("Edit", "Default")) \o
        Line(<<Open("CustomField")>> \o Override("View", "Flexipage") \o
             <<Close("CustomField")>>))
TextObjectDenylisted ==
    Doc("CustomObject", Line(Override("ResumeBilling", "Default")))
TextObjectCompact ==
    Doc("CustomObject", Line(Leaf("compactLayoutAssignment", "Mine")))
TextObjectPlain == Doc("CustomObject", Line(Leaf("label", "Account")))

\* Apex classes: a test class, and a class that is none and has the
\* annotation in a block comment.  Quotes, slashes, stars and backslashes are
\* tokens of their own.
IS_TEST == "@IsTest"
TextTestClass == <<IS_TEST, "\n", "class", " ", "{", "\n", "}", "\n">>
TextApexClass ==
    <<"/", "*", IS_TEST, "*", "/", "\n", "class", " ", "{", "\n", "}", "\n">>

\* -------------------------------------------------------------- exceptions
\* A pattern of the exception declaration file as loadExceptionPaths parses
\* it: a string wrapped in slashes is a RegExp, any other string a literal.
\* The regular expressions of the model have the form /<file name>$/.
RegexPattern(stem, meta) ==
    [kind |-> "regex", dirs |-> << >>, stem |-> stem, meta |-> meta]
\* The regular expression /^<dir>\//.
RegexStart(dir) ==
    [kind |-> "regex", dirs |-> <<dir>>, stem |-> "", meta |-> FALSE]
LiteralPattern(dirs, stem, meta) ==
    [kind |-> "literal", dirs |-> dirs, stem |-> stem, meta |-> meta]

\* String.prototype.toLowerCase on the names of the model.
Lower(str) ==
    CASE str = "Account" -> "account"
      [] str = "Foo.cls" -> "foo.cls"
      [] str = "ACCOUNT" -> "account"
      [] str = "Fields" -> "fields"
      [] str = "Foo.field" -> "foo.field"
      [] str = "Mine.listView" -> "mine.listview"
      [] str = "Account.object" -> "account.object"
      [] str = "X.standardValueSet" -> "x.standardvalueset"
      [] str = "listViews" -> "listviews"
      [] str = "webLinks" -> "weblinks"
      [] str = "W1.webLink" -> "w1.weblink"
      [] str = "W2.webLink" -> "w2.weblink"
      [] str = "T.trigger" -> "t.trigger"
      [] str = "FooTest.cls" -> "footest.cls"
      [] str = "Case" -> "case"
      [] str = "Case.object" -> "case.object"
      [] str = "validationRules" -> "validationrules"
      [] str = "R.validationRule" -> "r.validationrule"
      [] str = "F.flowDefinition" -> "f.flowdefinition"
      [] str = "flowDefinitions" -> "flowdefinitions"
      [] str = "P.permissionset" -> "p.permissionset"
      [] str = "standardValueSets" -> "standardvaluesets"
      [] OTHER -> str

LowerSeq(q) == [i \in 1..Len(q) |-> Lower(q[i])]

\* pattern.test(relativePath) for /<file name>$/ and /^<dir>\//
RegexTest(pattern, p) ==
    IF pattern.stem = ""
    THEN Len(p.dirs) > 0 /\ p.dirs[1] = pattern.dirs[1]
    ELSE pattern.stem = p.stem /\ pattern.meta = p.meta

\* path.normalize on the directory segments of a pattern: empty and "."
\* segments go, and ".." takes the segment before it with it.
RECURSIVE normalize(_)
normalize(segs) ==
    IF segs = << >> THEN << >>
    ELSE LET init == normalize(SubSeq(segs, 1, Len(segs) - 1))
             last == segs[Len(segs)]
         IN  IF last \in {"", "."} THEN init
             ELSE IF last = ".." /\ init # << >> /\ init[Len(init)] # ".."
                  THEN SubSeq(init, 1, Len(init) - 1)
                  ELSE Append(init, last)

\* matchingPath.toLowerCase() === normalizedPattern.toLowerCase(), where
\* matchingPath is the relative path without its first segment.
LiteralMatch(pattern, p) ==
    /\ Len(p.dirs) > 0
    /\ LowerSeq(Tail(p.dirs)) = LowerSeq(normalize(pattern.dirs))
    /\ Lower(p.stem) = Lower(pattern.stem)
    /\ p.meta = pattern.meta

\* isPathException with the literal compared to the whole relative path
\* (sensitivity variant).
isPathExceptionWhole(p, exceptions) ==
    \E i \in 1..Len(exceptions) :
        \/ exceptions[i].kind = "regex" /\ RegexTest(exceptions[i], p)
        \/ /\ exceptions[i].kind = "literal"
           /\ LowerSeq(p.dirs) = LowerSeq(normalize(exceptions[i].dirs))
           /\ Lower(p.stem) = Lower(exceptions[i].stem)
           /\ p.meta = exceptions[i].meta

isPathException(p, exceptions) ==
    \E i \in 1..Len(exceptions) :
        \/ exceptions[i].kind = "regex" /\ RegexTest(exceptions[i], p)
        \/ exceptions[i].kind = "literal" /\ LiteralMatch(exceptions[i], p)

\* paths[0] of path.dirname(relativePath).split(path.sep)
ExceptionKey(p) == IF Len(p.dirs) = 0 THEN "." ELSE p.dirs[1]

NoRules == [ignoredPaths |-> << >>, includeTests |-> << >>]

\* An exception declaration without rules, and the one of the documentation:
\* {"classes": {"ignoredPaths": ["/Foo\\.cls-meta\\.xml$/"]}}
ExceptionsNone == [c \in {} |-> NoRules]
ExceptionsClasses ==
    [c \in {"classes"} |->
        [ignoredPaths |-> <<RegexPattern("Foo.cls", TRUE)>>,
         includeTests |-> << >>]]

\* {"classes": {"includeTests": ["/FooTest\\.cls$/"]}}
ExceptionsIncludeTests ==
    [c \in {"classes"} |->
        [ignoredPaths |-> << >>,
         includeTests |-> <<RegexPattern("FooTest.cls", FALSE)>>]]

\* ---------------------------------------------------------------- universe
\* The relative paths a source tree is drawn from, in the order getAllFiles
\* lists them, when sourcePath is .../force-app/main/default.
DefaultUniverse ==
    << MkPath(SOURCE, <<"classes">>, "Foo.cls", FALSE),
       MkPath(SOURCE, <<"classes">>, "Foo.cls", TRUE),
       MkPath(SOURCE, <<"objects", "Account">>, "Account.object", TRUE),
       MkPath(SOURCE, <<"objects", "Account", "fields">>, "Foo.field", TRUE),
       MkPath(SOURCE, <<"objects", "Account", "listViews">>, "Mine.listView", TRUE),
       MkPath(SOURCE, <<"standardValueSets">>, "X.standardValueSet", TRUE) >>

\* The object files when sourcePath is the project root.
ProjectUniverse ==
    << MkPath(SOURCE, PROJECT_PREFIX \o <<"objects", "Account">>, "Account.object", TRUE),
       MkPath(SOURCE, PROJECT_PREFIX \o <<"objects", "Account", "fields">>, "Foo.field", TRUE),
       MkPath(SOURCE, PROJECT_PREFIX \o <<"objects", "Account", "listViews">>, "Mine.listView", TRUE) >>

\* The source trees of the whole pipeline: two web links of an object and a
\* trigger descriptor; a trigger with its descriptor.
WEBLINK_1 == MkPath(SOURCE, <<"objects", "Account", "webLinks">>, "W1.webLink", TRUE)
WEBLINK_2 == MkPath(SOURCE, <<"objects", "Account", "webLinks">>, "W2.webLink", TRUE)
TRIGGER == MkPath(SOURCE, <<"triggers">>, "T.trigger", FALSE)
TRIGGER_META == MkPath(SOURCE, <<"triggers">>, "T.trigger", TRUE)

VALIDATION_RULE ==
    MkPath(SOURCE, <<"objects", "Case", "validationRules">>, "R.validationRule", TRUE)
FLOW_DEFINITION == MkPath(SOURCE, <<"flowDefinitions">>, "F.flowDefinition", TRUE)
\* A file beside the descriptor of the flow definition, with its name less
\* "-meta.xml" (the file of the metadata-format layout).
FLOW_FILE == MkPath(SOURCE, <<"flowDefinitions">>, "F.flowDefinition", FALSE)
PERMISSION_SET == MkPath(SOURCE, <<"permissionsets">>, "P.permissionset", TRUE)
OBJECT_DESCRIPTOR == MkPath(SOURCE, <<"objects", "Case">>, "Case.object", TRUE)

APEX_CLASS == MkPath(SOURCE, <<"classes">>, "FooTest.cls", FALSE)
APEX_CLASS_META == MkPath(SOURCE, <<"classes">>, "FooTest.cls", TRUE)

PipelineUniverse ==
    << APEX_CLASS, APEX_CLASS_META, FLOW_FILE, FLOW_DEFINITION, WEBLINK_1, WEBLINK_2, OBJECT_DESCRIPTOR,
       VALIDATION_RULE, PERMISSION_SET, TRIGGER, TRIGGER_META >>

FIELD_IN_PROJECT ==
    MkPath(SOURCE, PROJECT_PREFIX \o <<"objects", "Account", "fields">>, "Foo.field", TRUE)

\* The third tree has sourcePath at the project root and lacks the root
\* descriptor of its object.
PipelineTrees ==
    { << WEBLINK_1, WEBLINK_2, TRIGGER_META >>,
      << TRIGGER, TRIGGER_META >>,
      << FIELD_IN_PROJECT >>,
      << VALIDATION_RULE >>,
      << WEBLINK_1, WEBLINK_2, VALIDATION_RULE >>,
      << FLOW_DEFINITION >>,
      << FLOW_FILE, FLOW_DEFINITION >>,
      << FLOW_DEFINITION, VALIDATION_RULE >>,
      << PERMISSION_SET >>,
      << OBJECT_DESCRIPTOR >>,
      << APEX_CLASS >>,
      << APEX_CLASS, APEX_CLASS_META >> }

\* Every relative path of the model, in the order getAllFiles lists a tree.
ListingOrder == DefaultUniverse \o ProjectUniverse \o PipelineUniverse

\* The texts a source file of the universe may hold.
SourceTexts(p) ==
    IF p.stem = "Mine.listView" THEN {TextPlain, TextMine}
    ELSE IF p.stem = "X.standardValueSet" THEN {TextPlain, TextStandardValue}
    ELSE IF p = APEX_CLASS THEN {TextTestClass, TextApexClass}
    ELSE IF p \in {TRIGGER_META, APEX_CLASS_META} THEN {TextTrigger}
    ELSE IF p = FIELD_IN_PROJECT THEN {TextField}
    ELSE IF p = VALIDATION_RULE
         THEN {TextRuleActive, TextRuleInactive, TextRuleNoActive, TextRuleMalformed}
    ELSE IF p = FLOW_DEFINITION
         THEN {TextFlowActive, TextFlowInactive, TextFlowTwoVersions}
    ELSE IF p = PERMISSION_SET THEN {TextPermissionSet, TextPermissionSetEmpty}
    ELSE IF p = OBJECT_DESCRIPTOR
         THEN {TextObjectOverrides, TextObjectNested, TextObjectDenylisted,
               TextObjectCompact, TextObjectPlain}
    ELSE {TextPlain}

\* What the target baseline holds at the path of a source file with text s:
\* nothing, the same text laid out differently, or another text.
ABSENT == << >>
BaselineTexts(s) == {ABSENT, Reindent(s), TextOther}

\* The subsequence of u at the indices of the set idx, in order.
RECURSIVE Pick(_, _, _)
Pick(u, idx, i) ==
    IF i > Len(u) THEN << >>
    ELSE (IF i \in idx THEN <<u[i]>> ELSE << >>) \o Pick(u, idx, i + 1)

SourceTrees ==
    UNION { { Pick(u, idx, 1) :
                idx \in {x \in SUBSET (1..Len(u)) : Cardinality(x) <= MaxFiles} }
            : u \in {DefaultUniverse, ProjectUniverse} }

SeqRange(q) == {q[i] : i \in 1..Len(q)}


\* ------------------------------------------------------------------- state
VARIABLES
    maxConcurrent,      \* os.cpus().length
    exceptionMap,       \* loadExceptionPaths(...)
    sourceFiles,        \* getAllFiles(sourcePath)
    harnessTasks,       \* the tasks a caller of the manager alone passes
    call,               \* a function called on its own: arguments and result
    disk,               \* the files that exist, each with its text
    dirs,               \* the directories created below the staging roots
    mainPc,             \* where the caller of the phases stands
    loopIdx,            \* the index of a submit loop
    cm,                 \* the ConcurrencyManager of each phase
    tasks,              \* the tasks passed to run(), per phase
    micro,              \* the promise job queue
    io,                 \* the pending file operations and timers
    CREATED_FILES_SET,
    CREATED_DIRS_SET,
    lockedFiles,
    copiedFiles,        \* identifyNewMetadata's local set
    newsFiles,          \* sanitizeMetadata's getAllFiles(NEWS_DIR)
    testClassesCounterSet,
    testClassCount,     \* the counter of apexClassCoverageHack.js
    dirCreatedSet,
    originalStates,
    statesFile,         \* what saveOriginalStates was given, and if it is written
    copyLog,            \* history: the bag of fs.copy calls made
    unhandled,          \* a rejected run() promise nobody handles
    rejectionMode,      \* how this Node build treats it, once known
    proc                \* "running", "crashed", or "exit1" after process.exit(1)

vars == << maxConcurrent, exceptionMap, sourceFiles, harnessTasks, call, disk, dirs,
           mainPc, loopIdx, cm, tasks, micro, io, CREATED_FILES_SET,
           CREATED_DIRS_SET, lockedFiles, copiedFiles, newsFiles,
           testClassesCounterSet, testClassCount, dirCreatedSet,
           originalStates, statesFile, copyLog, unhandled, rejectionMode,
           proc >>

inputs == << maxConcurrent, exceptionMap, sourceFiles, harnessTasks, call >>

\* No function is called on its own.
NoCall == [fn |-> "none", args |-> << >>, done |-> FALSE, result |-> << >>]

MAIN == "main"
P1 == "p1"
P2 == "p2"
P3 == "p3"
HARNESS == "harness"
Phases == {P1, P2, P3, HARNESS}

NoPath == MkPath("none", << >>, "", FALSE)

Job(k, ph, t, ok) == [k |-> k, ph |-> ph, t |-> t, ok |-> ok]

IoOp(op, ph, t, src, dst, primary) ==
    [op |-> op, ph |-> ph, t |-> t, src |-> src, dst |-> dst,
     primary |-> primary]

\* A task: where it stands in run(), which copyFileWithStructure call of its
\* body it is in, the two copies or unlinks its Promise.all waits for,
\* (history) the paths it took with getFileLock and has not released, the
\* text it is to write, and what injectHack has returned to it.
NewTask ==
    [pc |-> "idle", stage |-> 1, prim |-> "none", comp |-> "none",
     held |-> {}, xml |-> << >>, hack |-> "none"]

\* new ConcurrencyManager(maxConcurrent)
NewManager ==
    [currentlyRunning |-> 0, queue |-> << >>, resolved |-> FALSE,
     waiting |-> FALSE]

\* The state a synchronous segment works on.
Cur ==
    [disk |-> disk, dirs |-> dirs, cm |-> cm, tasks |-> tasks,
     micro |-> micro, io |-> io,
     createdFiles |-> CREATED_FILES_SET, createdDirs |-> CREATED_DIRS_SET,
     lockedFiles |-> lockedFiles, copiedFiles |-> copiedFiles,
     newsFiles |-> newsFiles, testClassesCounterSet |-> testClassesCounterSet,
     testClassCount |-> testClassCount,
     dirCreatedSet |-> dirCreatedSet, originalStates |-> originalStates,
     statesFile |-> statesFile,
     copyLog |-> copyLog, unhandled |-> unhandled, proc |-> proc]

Becomes(s) ==
    /\ disk' = s.disk
    /\ dirs' = s.dirs
    /\ newsFiles' = s.newsFiles
    /\ testClassesCounterSet' = s.testClassesCounterSet
    /\ testClassCount' = s.testClassCount
    /\ dirCreatedSet' = s.dirCreatedSet
    /\ originalStates' = s.originalStates
    /\ statesFile' = s.statesFile
    /\ cm' = s.cm
    /\ tasks' = s.tasks
    /\ micro' = s.micro
    /\ io' = s.io
    /\ CREATED_FILES_SET' = s.createdFiles
    /\ CREATED_DIRS_SET' = s.createdDirs
    /\ lockedFiles' = s.lockedFiles
    /\ copiedFiles' = s.copiedFiles
    /\ copyLog' = s.copyLog
    /\ unhandled' = s.unhandled
    /\ proc' = s.proc

Enqueue(s, k, ph, t, ok) ==
    [s EXCEPT !.micro = Append(@, Job(k, ph, t, ok))]

\* The async task body returns, or throws: the promise run() awaits settles.
TaskReturn(s, ph, t) == Enqueue(s, "fin", ph, t, TRUE)
TaskThrow(s, ph, t) == Enqueue(s, "fin", ph, t, FALSE)

\* ------------------------------------------------------------------- locks
\* Lines 574-576 alone: the paths are taken without a look at lockedFiles
\* (sensitivity variant).
getFileLockUnchecked(s, ph, t, paths, cont) ==
    Enqueue([s EXCEPT !.lockedFiles = @ \cup paths,
                      !.tasks[ph][t].held = @ \cup paths],
            cont, ph, t, TRUE)

\* getFileLock taking the paths one by one: the free ones are taken before
\* the sleep for the others (sensitivity variant).
getFileLockOneByOne(s, ph, t, paths, cont) ==
    LET free == {f \in paths : f \notin s.lockedFiles \/ f \in s.tasks[ph][t].held}
        s1 == [s EXCEPT !.lockedFiles = @ \cup free,
                        !.tasks[ph][t].held = @ \cup free]
    IN  IF free # paths
        THEN [s1 EXCEPT !.io = @ \cup {IoOp("timer", ph, t, NoPath, NoPath, FALSE)}]
        ELSE Enqueue(s1, cont, ph, t, TRUE)

\* getFileLock(...paths) up to its first suspension: with a path held it
\* sleeps 100 ms and looks again, else it takes every path and returns.
getFileLock(s, ph, t, paths, cont) ==
    IF \E f \in paths : f \in s.lockedFiles
    THEN [s EXCEPT !.io = @ \cup {IoOp("timer", ph, t, NoPath, NoPath, FALSE)}]
    ELSE Enqueue([s EXCEPT !.lockedFiles = @ \cup paths,
                           !.tasks[ph][t].held = @ \cup paths],
                 cont, ph, t, TRUE)

releaseFileLock(s, ph, t, paths) ==
    [s EXCEPT !.lockedFiles = @ \ paths, !.tasks[ph][t].held = @ \ paths]

\* ------------------------------------------------- copyFileWithStructure
\* /force-app\/main\/default\/objects\/([^\/]+)\// on the relative path: the
\* positions at which the four segments are followed by a directory segment.
ObjectMatches(p) ==
    {i \in 1..Len(p.dirs) :
        /\ i + 4 <= Len(p.dirs)
        /\ SubSeq(p.dirs, i, i + 3) = PROJECT_PREFIX \o <<"objects">>}

isObjectRegexTest(p) == ObjectMatches(p) # {}

\* relativePath.match(isObjectRegex)[1]: the segment of the first match.
ObjectName(p) ==
    p.dirs[(CHOOSE i \in ObjectMatches(p) : \A j \in ObjectMatches(p) : i <= j) + 4]

\* `${objectName}.object` for the object names of the model.
ObjectStem(name) == IF name = "Account" THEN "Account.object" ELSE "other.object"

\* path.join(sourcePath, 'force-app', 'main', 'default', 'objects',
\*           objectName, `${objectName}.object-meta.xml`)
ObjectFile(p) ==
    MkPath(SOURCE, PROJECT_PREFIX \o <<"objects", ObjectName(p)>>,
           ObjectStem(ObjectName(p)), TRUE)

\* The file and the destination tree of the copyFileWithStructure call a
\* task is in.
CfFile(s, ph, t) ==
    IF ph = P2 THEN s.newsFiles[t]
    ELSE IF s.tasks[ph][t].stage = 1 THEN sourceFiles[t]
    ELSE ObjectFile(sourceFiles[t])

CfDestBase(ph) == IF ph = P2 THEN SANITIZED_DIR ELSE NEWS_DIR

CfDestPath(s, ph, t) == Rebase(CfFile(s, ph, t), CfDestBase(ph))

\* Lines 596-597 without the registry check of line 595 (sensitivity variant
\* of CfRegister).
CfRegisterUnchecked(s, ph, t) ==
    LET destPath == CfDestPath(s, ph, t)
    IN  getFileLock([s EXCEPT !.createdFiles = @ \cup {destPath}],
                    ph, t, {destPath, fileCounterPath(destPath)}, "cfLocked")

\* Lines 595-597: the registry check, the registration and the lock request.
CfRegister(s, ph, t) ==
    LET destPath == CfDestPath(s, ph, t)
        destCounterPath == fileCounterPath(destPath)
    IN  IF destPath \notin s.createdFiles /\ destCounterPath \notin s.createdFiles
        THEN getFileLock([s EXCEPT !.createdFiles = @ \cup {destPath}],
                         ph, t, {destPath, destCounterPath}, "cfLocked")
        ELSE Enqueue(s, "afterCopy", ph, t, TRUE)

\* Lines 583-593: the call up to `await fs.ensureDir(dirname)`, or through to
\* the registry check when the directory is registered already.
copyFileWithStructure(s, ph, t) ==
    LET dirname == DirOf(CfDestPath(s, ph, t))
    IN  IF dirname \notin s.createdDirs
        THEN [s EXCEPT !.createdDirs = @ \cup {dirname},
                       !.io = @ \cup {IoOp("ensureDir", ph, t, NoPath, dirname, FALSE)}]
        ELSE CfRegister(s, ph, t)

\* Line 598: both copies start; Promise.all waits for them.
CfStartCopies(s, ph, t) ==
    LET filePath == CfFile(s, ph, t)
        destPath == CfDestPath(s, ph, t)
    IN  [s EXCEPT
           !.io = @ \cup
              {IoOp("copy", ph, t, filePath, destPath, TRUE),
               IoOp("copy", ph, t, fileCounterPath(filePath),
                    fileCounterPath(destPath), FALSE)},
           !.tasks[ph][t].prim = "pending",
           !.tasks[ph][t].comp = "pending",
           !.copyLog = @ (+) SetToBag({[ph |-> ph, t |-> t, dst |-> destPath]})
                         (+) SetToBag({[ph |-> ph, t |-> t,
                                        dst |-> fileCounterPath(destPath)]})]

\* Line 599, and the return to the awaiting task body.
CfRelease(s, ph, t) ==
    LET destPath == CfDestPath(s, ph, t)
    IN  Enqueue(releaseFileLock(s, ph, t,
                                {destPath, fileCounterPath(destPath)}),
                "afterCopy", ph, t, TRUE)


\* ---------------------------------------------------- identifyNewMetadata
\* Line 563 alone (sensitivity variant of areFilesDifferent).
areFilesDifferentIfAbsent(s, fileA, fileB) == fileB \notin DOMAIN s.disk

areFilesDifferent(s, fileA, fileB) ==
    \/ fileB \notin DOMAIN s.disk
    \/ Normalize(s.disk[fileA]) # Normalize(s.disk[fileB])

\* sourceFile.endsWith('.xml'): of the names of the model, the descriptors.
EndsWithXml(p) == p.meta

\* No declaration consulted (sensitivity variant of IsIgnored).
IsIgnoredNever(p) == FALSE

\* Line 787: the category of the file has an ignoredPaths pattern matching it.
IsIgnored(p) ==
    /\ ExceptionKey(p) \in DOMAIN exceptionMap
    /\ isPathException(p, exceptionMap[ExceptionKey(p)].ignoredPaths)

\* Line 800 reads `3 === path.length`, and `path` is the path module (the
\* segment array is `paths`): path.length is undefined and the test is false.
PathLengthIsThree(p) == FALSE

\* Lines 800-802: the test that guards the suppression of a list view.
IsMineListView(s, p) ==
    /\ ExceptionKey(p) = "objects"
    /\ PathLengthIsThree(p)
    /\ p.dirs[3] = "listViews"
    /\ p.meta
    /\ Includes(s.disk[p], FILTER_SCOPE_MINE)

\* Lines 792-794
IsEmptyStandardValueSet(s, p) ==
    /\ ExceptionKey(p) = "standardValueSets"
    /\ EndsWithXml(p)
    /\ ~Includes(s.disk[p], STANDARD_VALUE)

\* Lines 784-823: the task body up to its first suspension.
Phase1Body(s, t) ==
    LET sourceFile == sourceFiles[t]
        targetFile == Rebase(sourceFile, TARGET)
        s1 == [s EXCEPT !.copiedFiles = @ \cup {fileCounterPath(sourceFile)}]
    IN  IF IsIgnored(sourceFile) THEN TaskReturn(s, P1, t)
        ELSE IF IsEmptyStandardValueSet(s, sourceFile) THEN TaskReturn(s, P1, t)
        ELSE IF IsMineListView(s, sourceFile) THEN TaskReturn(s, P1, t)
        ELSE IF targetFile \in s.copiedFiles THEN TaskReturn(s, P1, t)
        ELSE IF targetFile \notin DOMAIN s1.disk
             THEN copyFileWithStructure(s1, P1, t)
        ELSE IF areFilesDifferent(s1, sourceFile, targetFile)
             THEN copyFileWithStructure(s1, P1, t)
        ELSE TaskReturn(s1, P1, t)

\* Lines 825-830: after the file's own copy, the object's root descriptor.
Phase1AfterCopy(s, t) ==
    IF s.tasks[P1][t].stage = 1 /\ isObjectRegexTest(sourceFiles[t])
    THEN copyFileWithStructure([s EXCEPT !.tasks[P1][t].stage = 2], P1, t)
    ELSE TaskReturn(s, P1, t)

\* -------------------------------------------------------- sanitizeMetadata
\* Lines 552-560 on a tree of the model: the files below root, in order.
getAllFiles(s, root) ==
    SelectSeq([i \in 1..Len(ListingOrder) |-> Rebase(ListingOrder[i], root)],
              LAMBDA p : p \in DOMAIN s.disk)

\* Line 854: relativePath.includes('objects/') && .includes('webLinks/')
IsWebLink(p) ==
    /\ \E i \in 1..Len(p.dirs) : p.dirs[i] = "objects"
    /\ \E i \in 1..Len(p.dirs) : p.dirs[i] = "webLinks"

\* pathDirs[0] of path.dirname(relativePath).split(path.sep)
PathDir0(file) == IF Len(file.dirs) = 0 THEN "." ELSE file.dirs[1]

\* relativePath.includes(path.join(name, '')) for a directory name of the
\* model, none of which ends with another.
IncludesDir(file, name) == \E i \in 1..Len(file.dirs) : file.dirs[i] = name

\* file.endsWith('.object-meta.xml') for the file names of the model.
IsObjectDescriptor(file) ==
    file.meta /\ file.stem \in {"Account.object", "Case.object"}

\* What lines 903-991 work on: the parsed document, `modified`, the map
\* originalStates, and how the statements so far ended: "go" (the next
\* statement runs), "return" (line 937), "exit" (process.exit(1)), "throw"
\* (a TypeError leaves the task body).  A rule runs when none before it has
\* ended the task body.
RuleState(xmlObj, states) ==
    [outcome |-> "go", xmlObj |-> xmlObj, modified |-> FALSE,
     originalStates |-> states]

Ends(r, outcome) == [r EXCEPT !.outcome = outcome]

\* xmlObj with the text of the first child of the node at pos replaced.
SetFirstText(xmlObj, pos, text) ==
    ReplaceAt(xmlObj, pos \o <<1>>,
              [NodeAt(xmlObj, pos \o <<1>>) EXCEPT !.text = text])

\* modified = removeElements(xmlObj, nodeName) || modified
RemoveAll(r, nodeName) ==
    LET after == removeElements(r.xmlObj, nodeName)
    IN  [r EXCEPT !.xmlObj = after, !.modified = @ \/ after # r.xmlObj]

\* Lines 906-913 left out (sensitivity variant of RulePermissionSets).
RulePermissionSetsSkipped(file, r) == r

\* Lines 906-913.
RulePermissionSets(file, r) ==
    LET pos == findElement(r.xmlObj, "PermissionSet")
        permissionSetElem == NodeAt(r.xmlObj, pos)
    IN  IF r.outcome # "go" \/ PathDir0(file) # "permissionsets" \/ pos = << >>
        THEN r
        ELSE IF ~HasFirst(permissionSetElem) THEN Ends(r, "throw")
        ELSE [r EXCEPT
                !.xmlObj = ReplaceAt(@, pos,
                    [permissionSetElem EXCEPT !.elements =
                        SelectSeq(@, LAMBDA elem : elem.name = "label")]),
                !.modified = TRUE]

\* Lines 916-925.
RuleFlows(file, r) ==
    IF r.outcome # "go" \/ PathDir0(file) # "flows" THEN r
    ELSE RemoveAll(RemoveAll(RemoveAll(r, "areMetricsLoggedToDataCloud"),
                             "offset"), "customErrors")

\* Lines 928-931.
RuleQueueRoutingConfigs(file, r) ==
    IF r.outcome # "go" \/ PathDir0(file) # "queueRoutingConfigs" THEN r
    ELSE RemoveAll(r, "capacityType")

\* Lines 934-943 without the call of line 940 (sensitivity variant of
\* RuleFlowDefinitions).
RuleFlowDefinitionsKept(file, r) ==
    LET pos == findElement(r.xmlObj, "activeVersionNumber")
    IN  IF PathDir0(file) # "flowDefinitions" \/ pos = << >> THEN r
        ELSE [r EXCEPT
                !.originalStates =
                    (file :> [type |-> "FlowDefinition",
                              originalValue |-> FirstText(NodeAt(r.xmlObj, pos))]) @@ @,
                !.modified = TRUE]

\* Lines 934-943.
RuleFlowDefinitions(file, r) ==
    LET pos == findElement(r.xmlObj, "activeVersionNumber")
        activeVersionElem == NodeAt(r.xmlObj, pos)
    IN  IF r.outcome # "go" \/ PathDir0(file) # "flowDefinitions" THEN r
        ELSE IF pos = << >> THEN Ends(r, "return")
        ELSE IF ~HasFirst(activeVersionElem) THEN Ends(r, "throw")
        ELSE [r EXCEPT
                !.originalStates =
                    (file :> [type |-> "FlowDefinition",
                              originalValue |-> FirstText(activeVersionElem)]) @@ @,
                !.xmlObj = removeElement(@, "activeVersionNumber"),
                !.modified = TRUE]

\* Lines 962-974 left out (sensitivity variant of RuleValidationRules).
RuleValidationRulesSkipped(file, r) == r

\* Lines 962-974 with the record begun anew at line 969 (sensitivity variant
\* of RuleValidationRules).
RuleValidationRulesAnew(file, r) ==
    LET pos == findElement(r.xmlObj, "active")
        ruleElem == NodeAt(r.xmlObj, pos)
    IN  IF \/ r.outcome # "go"
           \/ ~(PathDir0(file) = "objects" /\ IncludesDir(file, "validationRules"))
        THEN r
        ELSE IF pos = << >> THEN Ends(r, "exit")
        ELSE IF ~HasFirst(ruleElem) THEN Ends(r, "throw")
        ELSE IF FirstText(ruleElem) # <<"true">> THEN r
        ELSE [r EXCEPT
                !.originalStates =
                    (file :> [type |-> "ValidationRule",
                              originalValue |-> <<"true">>]),
                !.xmlObj = SetFirstText(@, pos, <<"false">>),
                !.modified = TRUE]

\* Lines 962-974.
RuleValidationRules(file, r) ==
    LET pos == findElement(r.xmlObj, "active")
        ruleElem == NodeAt(r.xmlObj, pos)
    IN  IF \/ r.outcome # "go"
           \/ ~(PathDir0(file) = "objects" /\ IncludesDir(file, "validationRules"))
        THEN r
        ELSE IF pos = << >> THEN Ends(r, "exit")
        ELSE IF ~HasFirst(ruleElem) THEN Ends(r, "throw")
        ELSE IF FirstText(ruleElem) # <<"true">> THEN r
        ELSE [r EXCEPT
                !.originalStates =
                    (file :> [type |-> "ValidationRule",
                              originalValue |-> <<"true">>]) @@ @,
                !.xmlObj = SetFirstText(@, pos, <<"false">>),
                !.modified = TRUE]

\* Lines 979-983.
RuleCompactLayout(r) ==
    LET pos == findElement(r.xmlObj, "compactLayoutAssignment")
    IN  IF pos = << >> THEN r
        ELSE IF ~HasFirst(NodeAt(r.xmlObj, pos)) THEN Ends(r, "throw")
        ELSE [r EXCEPT !.xmlObj = SetFirstText(@, pos, <<"SYSTEM">>),
                       !.modified = TRUE]

\* Lines 977-985.
RuleObjects(file, r) ==
    IF r.outcome # "go" \/ ~(PathDir0(file) = "objects" /\ IsObjectDescriptor(file))
    THEN r
    ELSE IF processActionOverridesThrows(r.xmlObj) THEN Ends(r, "throw")
    ELSE LET after == processActionOverrides(r.xmlObj)
         IN  RuleCompactLayout([r EXCEPT !.xmlObj = after,
                                         !.modified = @ \/ after # r.xmlObj])

\* Lines 988-991.
RuleQueues(file, r) ==
    IF r.outcome # "go" \/ ~IncludesDir(file, "queues") THEN r
    ELSE RemoveAll(r, "queueMembers")

\* Lines 903-991 on a parsed document.
ApplyRules(file, xmlObj, states) ==
    RuleQueues(file,
      RuleObjects(file,
        RuleValidationRules(file,
          RuleFlowDefinitions(file,
            RuleQueueRoutingConfigs(file,
              RuleFlows(file,
                RulePermissionSets(file, RuleState(xmlObj, states))))))))

\* Line 993 with buildXml called whatever `modified` is (sensitivity variant
\* of finalXml).
finalXmlRebuilt(modified, xmlObj, xmlContent) == buildXml(xmlObj)

\* Line 993.
finalXml(modified, xmlObj, xmlContent) ==
    IF modified THEN buildXml(xmlObj) ELSE xmlContent

\* process.exit(1) as a call that returns and leaves the process running.
ProcessExitIgnored(s) == s

\* process.exit(1): the process ends inside the call.
ProcessExit(s) == [s EXCEPT !.proc = "exit1"]

Phase2Dest(s, t) == Rebase(s.newsFiles[t], SANITIZED_DIR)

\* Lines 997-998: the directory is noted and the lock requested.
Phase2Lock(s, t) ==
    getFileLock([s EXCEPT !.dirCreatedSet = @ \cup {DirOf(Phase2Dest(s, t))}],
                P2, t, {Phase2Dest(s, t)}, "p2Locked")

\* Lines 995-996: fs.ensureDir is awaited unless the directory is noted.
Phase2EnsureDir(s, t) ==
    LET dirPath == DirOf(Phase2Dest(s, t))
    IN  IF dirPath \notin s.dirCreatedSet
        THEN [s EXCEPT !.io = @ \cup {IoOp("ensureDir", P2, t, NoPath, dirPath, FALSE)}]
        ELSE Phase2Lock(s, t)

\* Lines 999-1000: the write under the lock, the release, and the return.
Phase2Write(s, t) ==
    LET dest == Phase2Dest(s, t)
        written == [s EXCEPT !.disk = (dest :> s.tasks[P2][t].xml) @@ @,
                             !.dirs = @ \cup {DirOf(dest)}]
    IN  TaskReturn(releaseFileLock(written, P2, t, {dest}), P2, t)

\* Lines 894-996: the descriptor is read, parsed and put through the rules,
\* and the task body goes on to the write unless a rule has ended it.
Phase2Descriptor(s, t) ==
    LET file == s.newsFiles[t]
        xmlContent == s.disk[file]
        parsed == parseXml(xmlContent)
        r == ApplyRules(file, parsed.xmlObj, s.originalStates)
        s1 == [s EXCEPT !.originalStates = r.originalStates]
    IN  IF ~parsed.ok THEN ProcessExit(s)
        ELSE CASE r.outcome = "exit" -> ProcessExit(s1)
               [] r.outcome = "throw" -> TaskThrow(s1, P2, t)
               [] r.outcome = "return" -> TaskReturn(s1, P2, t)
               [] OTHER ->
                    Phase2EnsureDir(
                        [s1 EXCEPT
                           !.tasks[P2][t].stage = 2,
                           !.tasks[P2][t].xml =
                               finalXml(r.modified, r.xmlObj, xmlContent)], t)

\* Lines 850-996: the task body up to its first suspension.
Phase2Body(s, t) ==
    LET file == s.newsFiles[t]
    IN  IF IsWebLink(file) THEN TaskReturn(s, P2, t)
        ELSE IF file \in s.testClassesCounterSet THEN TaskReturn(s, P2, t)
        ELSE IF ~file.meta THEN copyFileWithStructure(s, P2, t)
        ELSE IF file.dirs = <<"classes">> THEN TaskReturn(s, P2, t)
        ELSE Phase2Descriptor(s, t)

\* ------------------------------------------------------------- injectHack
\* String.prototype.trim
RECURSIVE TrimEnd(_)
TrimEnd(s) ==
    IF Len(s) > 0 /\ IsSpace(s[Len(s)]) THEN TrimEnd(SubSeq(s, 1, Len(s) - 1))
    ELSE s
Trim(s) == TrimEnd(SubSeq(s, RunEnd(s, 1), Len(s)))

\* The loop of removeComments from content[i] on, outside comments and
\* literals ("code"), in a line comment, in a block comment, or in a string
\* literal that stringChar opened: what it adds to `result`.
RECURSIVE RemoveFrom(_, _, _, _)
RemoveFrom(content, i, in, stringChar) ==
    IF i > Len(content) THEN << >>
    ELSE
      LET current == content[i]
          next == IF i < Len(content) THEN content[i + 1] ELSE "undefined"
      IN  CASE in = "lineComment" ->
                 IF current = "\n"
                 THEN <<current>> \o RemoveFrom(content, i + 1, "code", stringChar)
                 ELSE RemoveFrom(content, i + 1, in, stringChar)
            [] in = "blockComment" ->
                 IF current = "*" /\ next = "/"
                 THEN RemoveFrom(content, i + 2, "code", stringChar)
                 ELSE RemoveFrom(content, i + 1, in, stringChar)
            [] in = "string" ->
                 IF current # stringChar
                 THEN <<current>> \o RemoveFrom(content, i + 1, in, stringChar)
                 ELSE IF next = stringChar
                      THEN <<current, next>> \o
                           RemoveFrom(content, i + 2, in, stringChar)
                      ELSE <<current>> \o RemoveFrom(content, i + 1, "code", "")
            [] OTHER ->
                 IF current \in {"'", "\""}
                 THEN <<current>> \o RemoveFrom(content, i + 1, "string", current)
                 ELSE IF current = "/" /\ next = "/"
                      THEN RemoveFrom(content, i + 2, "lineComment", stringChar)
                 ELSE IF current = "/" /\ next = "*"
                      THEN RemoveFrom(content, i + 2, "blockComment", stringChar)
                 ELSE <<current>> \o RemoveFrom(content, i + 1, in, stringChar)

\* removeComments(content)
removeComments(content) == RemoveFrom(content, 1, "code", "")

\* /[@]IsTest/i.test(withoutComments)
HasIsTest(s) ==
    \E i \in 1..Len(s) : s[i] \in {"@IsTest", "@isTest", "@istest", "@ISTEST"}

\* The end of the line that starts at position i.
RECURSIVE LineEnd(_, _)
LineEnd(s, i) == IF i > Len(s) \/ s[i] = "\n" THEN i ELSE LineEnd(s, i + 1)

\* /(^|\s+)interface\s+/i.test(withoutComments.split('\n')[0])
IsInterface(s) ==
    \E i \in 1..(LineEnd(s, 1) - 2) :
        /\ s[i] \in {"interface", "Interface"}
        /\ IsSpace(s[i + 1])
        /\ i = 1 \/ IsSpace(s[i - 1])

\* withoutComments.split("\n").filter(line => line.trim() !== "").length
RECURSIVE NumLines(_, _)
NumLines(s, i) ==
    IF i > Len(s) THEN 0
    ELSE LET e == LineEnd(s, i)
         IN  (IF \E k \in i..(e - 1) : ~IsSpace(s[k]) THEN 1 ELSE 0)
             + NumLines(s, e + 1)

\* injectedMethod: the head of testeXPTO, `Integer a = 0;`, the statement
\* a++; methodLinesTotal - 1 times, and the closing brace.
InjectedMethod(numLines) ==
    <<"\n", "testeXPTO() {", "\n", "Integer a = 0;", "\n">> \o
    [k \in 1..(2 * (4 * numLines - 1)) |-> IF k % 2 = 1 THEN "a++;" ELSE "\n"] \o
    <<"}", "\n">>

\* withoutComments.lastIndexOf("}"), 0 for -1.
LastBrace(s) ==
    LET hits == {i \in 1..Len(s) : s[i] = "}"}
    IN  IF hits = {} THEN 0 ELSE CHOOSE i \in hits : \A h \in hits : h <= i

\* modifiedContent
ModifiedContent(withoutComments) ==
    SubSeq(withoutComments, 1, LastBrace(withoutComments) - 1) \o
    InjectedMethod(NumLines(withoutComments, 1)) \o
    SubSeq(withoutComments, LastBrace(withoutComments), Len(withoutComments))

\* `tXPTO${testClassCount}.cls`
TestStem(n) ==
    CASE n = 0 -> "tXPTO0.cls" [] n = 1 -> "tXPTO1.cls" [] OTHER -> "tXPTOn.cls"

\* path.basename(filePath, ".cls") for the classes of the model.
ClassName(stem) == IF stem = "FooTest.cls" THEN "FooTest" ELSE stem

\* testContent and xmlContent, the generated test class and its descriptor.
TestContent(className) ==
    <<IS_TEST, "\n", "class", " ", "{", "\n", className \o ".testeXPTO();",
      "\n", "}", "\n">>
GeneratedDescriptor ==
    <<"<?xml?>", "\n", "<ApexClass>", "\n", " ", "<status>", "Active",
      "</status>", "\n", "</ApexClass>", "\n", " ">>

\* What a task holds after `await injectHack(destSanitizedPath)`.
HackReturns(s, t, result, ok) ==
    Enqueue([s EXCEPT !.tasks[P2][t].hack = result], "hacked", P2, t, ok)

\* injectHack(filePath) up to its first suspension.  A missing file makes
\* readFileSync throw; a test class and an interface return at once; a text
\* without closing brace returns undefined, which the destructuring of line
\* 869 cannot take; any other class is rewritten in place, and the two
\* fs.writeFile calls of the generated test class are started (they take a
\* callback and return no promise, so that Promise.all waits for nothing).
injectHack(s, t) ==
    LET filePath == Rebase(s.newsFiles[t], SANITIZED_DIR)
        withoutComments == Trim(removeComments(s.disk[filePath]))
        testPath == [filePath EXCEPT !.stem = TestStem(s.testClassCount)]
    IN  IF filePath \notin DOMAIN s.disk THEN HackReturns(s, t, "throw", FALSE)
        ELSE IF HasIsTest(withoutComments) THEN HackReturns(s, t, "isTest", TRUE)
        ELSE IF IsInterface(withoutComments) THEN HackReturns(s, t, "isInterface", TRUE)
        ELSE IF LastBrace(withoutComments) = 0 THEN HackReturns(s, t, "undefined", FALSE)
        ELSE Enqueue(
                 [s EXCEPT
                    !.disk = (filePath :> ModifiedContent(withoutComments)) @@ @,
                    !.testClassCount = @ + 1,
                    !.io = @ \cup
                       {IoOp("writeFile", P2, t, NoPath, testPath, TRUE),
                        IoOp("writeFile", P2, t, NoPath,
                             fileCounterPath(testPath), FALSE)}],
                 "hackWritten", P2, t, TRUE)

\* Lines 870-871 with includeTests left out.
mustIncludeTestNever(s, t) == FALSE

\* Lines 870-871.
mustIncludeTest(s, t) ==
    LET relativePath == s.newsFiles[t]
        exceptionKey == relativePath.dirs[Len(relativePath.dirs)]
    IN  /\ s.tasks[P2][t].hack = "isTest"
        /\ exceptionKey \in DOMAIN exceptionMap
        /\ isPathException(relativePath, exceptionMap[exceptionKey].includeTests)

\* Lines 870-887: the task body after `await injectHack(...)`.  A test class
\* that is not to be included is noted and both sanitized files are
\* unlinked; Promise.all waits for the two.
Phase2AfterHack(s, t) ==
    LET file == s.newsFiles[t]
        destSanitizedPath == Rebase(file, SANITIZED_DIR)
    IN  IF s.tasks[P2][t].hack = "isTest" /\ ~mustIncludeTest(s, t)
        THEN [s EXCEPT
                !.testClassesCounterSet = @ \cup {fileCounterPath(file)},
                !.tasks[P2][t].prim = "pending",
                !.tasks[P2][t].comp = "pending",
                !.io = @ \cup
                   {IoOp("unlink", P2, t, NoPath, destSanitizedPath, TRUE),
                    IoOp("unlink", P2, t, NoPath,
                         fileCounterPath(destSanitizedPath), FALSE)}]
        ELSE TaskReturn(s, P2, t)

\* Lines 866-869: the task body after `await copyFileWithStructure(...)`.
Phase2AfterCopy(s, t) ==
    IF s.newsFiles[t].dirs = <<"classes">> THEN injectHack(s, t)
    ELSE TaskReturn(s, P2, t)

\* The paths and the continuation of the getFileLock call a task sleeps in.
LockAgain(s, ph, t) ==
    IF ph = HARNESS
    THEN getFileLock(s, HARNESS, t, harnessTasks[t].paths, "hLocked")
    ELSE IF ph = P2 /\ s.tasks[ph][t].stage = 2
    THEN getFileLock(s, P2, t, {Phase2Dest(s, t)}, "p2Locked")
    ELSE getFileLock(s, ph, t,
                     {CfDestPath(s, ph, t), fileCounterPath(CfDestPath(s, ph, t))},
                     "cfLocked")

\* Lines 607-608 as line 1006 calls them: fs.writeJson serializes the map at
\* the call and writes the file later.
saveOriginalStates(s) ==
    [s EXCEPT !.statesFile = [given |-> TRUE, written |-> FALSE,
                              value |-> s.originalStates],
              !.io = @ \cup {IoOp("writeJson", P2, 0, NoPath, NoPath, FALSE)}]

\* -------------------------------------------------- generateDeployPackages
\* path.join(PACKAGES_DIR, pkgName, 'force-app', 'main', 'default') is the
\* tree named pkgName.
Package(name, components, baseSource) ==
    [name |-> name, components |-> components, baseSource |-> baseSource]

PACKAGES ==
    << Package("package0", <<"permissionsets", "customPermissions">>, SANITIZED_DIR),
       Package("package1", <<"labels", "standardValueSets", "groups", "objects",
                             "customMetadata", "queues", "queueRoutingConfigs",
                             "remoteSiteSettings">>, SANITIZED_DIR),
       Package("package2", <<"globalValueSets", "staticresources">>, SANITIZED_DIR),
       Package("package3", <<"tabs", "classes", "triggers", "pages", "lwc",
                             "aura">>, SANITIZED_DIR),
       Package("package4", <<"flows", "flowDefinitions", "labels", "SharingRules",
                             "workflows", "approvalProcesses">>, SANITIZED_DIR),
       Package("package5", << >>, SANITIZED_DIR),
       Package("package6", << >>, SANITIZED_DIR),
       Package("package7", << >>, SANITIZED_DIR),
       Package("package8", << >>, SANITIZED_DIR),
       Package("package9", << >>, SANITIZED_DIR),
       Package("package10", <<"objects", "applications", "quickActions",
                              "layouts", "flexiPages">>, NEWS_DIR),
       Package("package11", <<"profiles", "permissionsets", "customPermissions",
                              "permissionsetgroups">>, NEWS_DIR),
       Package("package12", <<"Roles">>, SANITIZED_DIR),
       Package("package13", << >>, SANITIZED_DIR) >>

IsPrefix(a, b) == Len(a) <= Len(b) /\ SubSeq(b, 1, Len(a)) = a

\* -------------------------------------------------- generateDeployCommands
\* The separator line of the block at position index of the manifest.
Separator(index) ==
    "---------------- PACKAGE" \o ToString(index) \o " ----------------"

\* packageDir
PackageDir(pkgName) == "deploy-staging/packages/" \o pkgName

\* testOption
TestOption(pkgName, specifiedTests) ==
    IF pkgName = "package3" THEN specifiedTests ELSE <<"-t \"Dummy\"">>

\* command, a text that holds the text of specifiedTests.
Command(pkgName, specifiedTests) ==
    <<"sf project deploy validate --source-dir ./" \o PackageDir(pkgName)
        \o " --source-dir ./DummyTest.cls -l RunSpecifiedTests ">>
    \o TestOption(pkgName, specifiedTests) \o <<" --target-org">>

\* Lines 1091-1099: what the map callback returns for the entry at
\* position index (from 0); the empty string is the empty text.
Block(pkg, index, specifiedTests) ==
    IF Len(pkg.components) = 0 THEN << >>
    ELSE <<Separator(index), "\n">> \o Command(pkg.name, specifiedTests)
         \o <<"\n", Separator(index)>>

\* Array.prototype.join("\n\n")
RECURSIVE Join(_)
Join(texts) ==
    IF Len(texts) = 0 THEN << >>
    ELSE IF Len(texts) = 1 THEN texts[1]
    ELSE texts[1] \o <<"\n", "\n">> \o Join(Tail(texts))

\* Lines 1091-1100 with the blocks of the empty bundles kept (sensitivity
\* variant of generateDeployCommands).
generateDeployCommandsUnfiltered(specifiedTests) ==
    Join([i \in 1..Len(PACKAGES) |-> Block(PACKAGES[i], i - 1, specifiedTests)])

\* Lines 1091-1101: the text written to deployCommands.txt.
generateDeployCommands(specifiedTests) ==
    Join(SelectSeq([i \in 1..Len(PACKAGES) |->
                       Block(PACKAGES[i], i - 1, specifiedTests)],
                   LAMBDA text : text # << >>))

\* x is the directory d or lies below it.
Below(x, d) == x.root = d.root /\ IsPrefix(d.dirs, x.dirs)

\* fs.existsSync(dir)
DirExists(s, d) == \E x \in s.dirs \cup DOMAIN s.disk : Below(x, d)

\* Lines 1071-1078 from the component after the one last copied: the next
\* component whose directory exists is copied, and without one the task ends.
Phase3Loop(s, t) ==
    LET pkg == PACKAGES[t]
        found == {i \in (s.tasks[P3][t].stage + 1)..Len(pkg.components) :
                     DirExists(s, MkPath(pkg.baseSource, <<pkg.components[i]>>, "", FALSE))}
        i == CHOOSE x \in found : \A y \in found : x <= y
    IN  IF found = {} THEN TaskReturn(s, P3, t)
        ELSE [s EXCEPT
                !.tasks[P3][t].stage = i,
                !.io = @ \cup
                   {IoOp("copyDir", P3, t,
                         MkPath(pkg.baseSource, <<pkg.components[i]>>, "", FALSE),
                         MkPath(pkg.name, <<pkg.components[i]>>, "", FALSE), FALSE)}]

\* Lines 1066-1067: the task body up to `await fs.ensureDir(pkgDir)`.
Phase3Body(s, t) ==
    [s EXCEPT !.tasks[P3][t].stage = 0,
              !.io = @ \cup {IoOp("ensureDir", P3, t, NoPath,
                                  MkPath(PACKAGES[t].name, << >>, "", FALSE), FALSE)}]

\* ------------------------------------------------------ ConcurrencyManager
\* A task of the harness: it returns or throws at once, or after one
\* asynchronous operation.
HarnessBody(s, t) ==
    IF harnessTasks[t].sync
    THEN Enqueue(s, "fin", HARNESS, t, harnessTasks[t].ok)
    ELSE [s EXCEPT !.io = @ \cup {IoOp("work", HARNESS, t, NoPath, NoPath, FALSE)}]

\* task(), up to its first suspension.
TaskBody(s, ph, t) ==
    CASE ph = P1 -> Phase1Body(s, t)
      [] ph = P2 -> Phase2Body(s, t)
      [] ph = P3 -> Phase3Body(s, t)
      [] ph = HARNESS -> HarnessBody(s, t)

TaskAfterCopy(s, ph, t) ==
    IF ph = P2 THEN Phase2AfterCopy(s, t) ELSE Phase1AfterCopy(s, t)

\* Lines 684-686: the task takes a slot and its body starts.
CmStart(s, ph, t) ==
    TaskBody([s EXCEPT !.cm[ph].currentlyRunning = @ + 1,
                       !.tasks[ph][t].pc = "running"], ph, t)

\* Lines 681-683 with the task put at the head of the queue (sensitivity
\* variant).
CmRunUnshift(s, ph, t) ==
    IF s.cm[ph].currentlyRunning >= maxConcurrent
    THEN [s EXCEPT !.cm[ph].queue = << t >> \o @,
                   !.tasks[ph][t].pc = "queued"]
    ELSE CmStart(s, ph, t)

\* Lines 681-683: run(task) up to its first suspension.
CmRun(s, ph, t) ==
    IF s.cm[ph].currentlyRunning >= maxConcurrent
    THEN [s EXCEPT !.cm[ph].queue = Append(@, t),
                   !.tasks[ph][t].pc = "queued"]
    ELSE CmStart(s, ph, t)

\* this.resolveAllTasks(): settles allTasksCompleted, once.
ResolveAllTasks(s, ph) ==
    IF s.cm[ph].resolved THEN s
    ELSE IF s.cm[ph].waiting
         THEN Enqueue([s EXCEPT !.cm[ph].resolved = TRUE], "wfa", ph, 0, TRUE)
         ELSE [s EXCEPT !.cm[ph].resolved = TRUE]

\* Lines 687-695 with the queue left alone when the task threw (sensitivity
\* variant).
CmFinallyOnSuccess(s, ph, t, ok) ==
    LET s1 == [s EXCEPT !.cm[ph].currentlyRunning = @ - 1,
                        !.tasks[ph][t].pc = IF ok THEN "done" ELSE "failed",
                        !.unhandled = @ \/ ~ok]
        next == Head(s1.cm[ph].queue)
    IN  IF ok /\ Len(s1.cm[ph].queue) > 0
        THEN Enqueue([s1 EXCEPT !.cm[ph].queue = Tail(@),
                                !.tasks[ph][next].pc = "woken"],
                     "resume", ph, next, TRUE)
        ELSE IF s1.cm[ph].currentlyRunning = 0 THEN ResolveAllTasks(s1, ph)
        ELSE s1

\* Lines 687-695: the finally block of run(); a task that threw leaves the
\* promise of its run() call rejected, and nobody handles it.
CmFinally(s, ph, t, ok) ==
    LET s1 == [s EXCEPT !.cm[ph].currentlyRunning = @ - 1,
                        !.tasks[ph][t].pc = IF ok THEN "done" ELSE "failed",
                        !.unhandled = @ \/ ~ok]
        next == Head(s1.cm[ph].queue)
    IN  IF Len(s1.cm[ph].queue) > 0
        THEN Enqueue([s1 EXCEPT !.cm[ph].queue = Tail(@),
                                !.tasks[ph][next].pc = "woken"],
                     "resume", ph, next, TRUE)
        ELSE IF s1.cm[ph].currentlyRunning = 0 THEN ResolveAllTasks(s1, ph)
        ELSE s1

\* Lines 698-700: waitForAll() up to `await this.allTasksCompleted`.
waitForAll(s, ph) ==
    IF s.cm[ph].resolved THEN Enqueue(s, "wfa", ph, 0, TRUE)
    ELSE [s EXCEPT !.cm[ph].waiting = TRUE]

\* -------------------------------------------------------------- event loop
\* A submit loop runs to its end without giving way to any job or macrotask.
InSync == mainPc.at = "loop"

JobReady(k) ==
    /\ proc = "running"
    /\ ~InSync
    /\ Len(micro) > 0
    /\ Head(micro).k = k

Popped == [Cur EXCEPT !.micro = Tail(@)]

\* Macrotasks run when the job queue is drained and the rejections it left
\* unhandled have been processed.
MacroReady ==
    /\ proc = "running"
    /\ ~InSync
    /\ Len(micro) = 0
    /\ ~unhandled

io_frame == << inputs, mainPc, loopIdx, rejectionMode >>

\* Everything a synchronous segment may change.
heap == << disk, dirs, cm, tasks, micro, io, CREATED_FILES_SET,
           CREATED_DIRS_SET, lockedFiles, copiedFiles, newsFiles,
           testClassesCounterSet, testClassCount, dirCreatedSet,
           originalStates, statesFile, copyLog, unhandled >>


At(ph, at) == [ph |-> ph, at |-> at]

\* A phase function awaits fs.ensureDir of its tree.
EnsureRoot(s, ph, root) ==
    [s EXCEPT !.io = @ \cup {IoOp("ensureDir", ph, 0, NoPath,
                                  MkPath(root, << >>, "", FALSE), FALSE)}]

\* ----------------------------------------------------------------- actions
\* Line 775: identifyNewMetadata is called and awaits fs.ensureDir(NEWS_DIR).
IdentifyNewMetadata ==
    /\ proc = "running"
    /\ mainPc = At(P1, "start")
    /\ mainPc' = At(P1, "ensure")
    /\ Becomes(EnsureRoot(Cur, P1, NEWS_DIR))
    /\ UNCHANGED << inputs, loopIdx, rejectionMode >>

\* Who awaits an fs.ensureDir: a phase function (t = 0), a task of Phase 3,
\* a task of Phase 2 at line 996, or a task inside copyFileWithStructure.
EnsureCont(ph, t) ==
    IF t = 0 THEN "begin"
    ELSE IF ph = P3 THEN "p3Dir"
    ELSE IF ph = P2 /\ tasks[ph][t].stage = 2 THEN "p2Dir"
    ELSE "cfDir"

\* fs.ensureDir completes: the directory exists, and the awaiting function
\* continues.
IoEnsureDir(o) ==
    /\ MacroReady
    /\ o \in io
    /\ o.op = "ensureDir"
    /\ Becomes(Enqueue([Cur EXCEPT !.io = @ \ {o}, !.dirs = @ \cup {o.dst}],
                       EnsureCont(o.ph, o.t), o.ph, o.t, TRUE))
    /\ UNCHANGED io_frame

\* Lines 776-782: the file list is read and the submit loop begins.
BeginLoop ==
    /\ JobReady("begin")
    /\ mainPc' = At(Head(micro).ph, "loop")
    /\ loopIdx' = 1
    /\ Becomes(IF Head(micro).ph = P2
               THEN [Popped EXCEPT
                       !.newsFiles = getAllFiles(Cur, NEWS_DIR),
                       !.tasks[P2] = [i \in 1..Len(getAllFiles(Cur, NEWS_DIR))
                                        |-> NewTask]]
               ELSE Popped)
    /\ UNCHANGED << inputs, rejectionMode >>

\* Lines 782-783, 848-849, 1064-1065: one iteration of a submit loop,
\* concurrencyManager.run(task).
Submit ==
    /\ proc = "running"
    /\ mainPc.at = "loop"
    /\ loopIdx <= Len(tasks[mainPc.ph])
    /\ Becomes(CmRun(Cur, mainPc.ph, loopIdx))
    /\ loopIdx' = loopIdx + 1
    /\ UNCHANGED << inputs, mainPc, rejectionMode >>

\* Lines 834, 1005, 1082: the loop is over;
\* `await concurrencyManager.waitForAll()`.
AwaitAll ==
    /\ proc = "running"
    /\ mainPc.at = "loop"
    /\ loopIdx > Len(tasks[mainPc.ph])
    /\ Becomes(waitForAll(Cur, mainPc.ph))
    /\ mainPc' = At(mainPc.ph, "wait")
    /\ UNCHANGED << inputs, loopIdx, rejectionMode >>

\* Line 684: a task that waited in the queue continues after its wake-up.
Resume ==
    /\ JobReady("resume")
    /\ Becomes(CmStart(Popped, Head(micro).ph, Head(micro).t))
    /\ UNCHANGED io_frame

\* Line 595: copyFileWithStructure continues after fs.ensureDir.
CfDirEnsured ==
    /\ JobReady("cfDir")
    /\ Becomes(CfRegister(Popped, Head(micro).ph, Head(micro).t))
    /\ UNCHANGED io_frame

\* Line 598: copyFileWithStructure holds the locks and starts the copies.
CfLocked ==
    /\ JobReady("cfLocked")
    /\ Becomes(CfStartCopies(Popped, Head(micro).ph, Head(micro).t))
    /\ UNCHANGED io_frame

\* The companion copy without its catch: a companion that does not exist
\* rejects it (sensitivity variant).
CompanionSettlesRejecting(exists) == IF exists THEN "done" ELSE "fail"

\* Line 598: fs.copy(fileCounterPart, destCounterPath).catch(() => { })
\* fulfils whether the companion exists or not.
CompanionSettles(exists) == "done"

\* fs.copy completes.  A source that does not exist rejects it; the companion
\* copy swallows that, the primary copy rejects the Promise.all at once.
IoCopy(o) ==
    /\ MacroReady
    /\ o \in io
    /\ o.op = "copy"
    /\ LET exists == o.src \in DOMAIN disk
           tk == tasks[o.ph][o.t]
           s0 == [Cur EXCEPT
                    !.io = @ \ {o},
                    !.disk = IF exists THEN (o.dst :> disk[o.src]) @@ @ ELSE @,
                    !.dirs = IF exists THEN @ \cup {DirOf(o.dst)} ELSE @]
           s1 == IF o.primary
                 THEN IF exists
                      THEN IF tk.comp = "done"
                           THEN Enqueue([s0 EXCEPT !.tasks[o.ph][o.t].prim = "ok"],
                                        "cfCopied", o.ph, o.t, TRUE)
                           ELSE [s0 EXCEPT !.tasks[o.ph][o.t].prim = "ok"]
                      ELSE Enqueue([s0 EXCEPT !.tasks[o.ph][o.t].prim = "fail"],
                                   "cfFailed", o.ph, o.t, FALSE)
                 ELSE IF CompanionSettles(exists) = "fail"
                      THEN IF tk.prim = "fail"
                           THEN [s0 EXCEPT !.tasks[o.ph][o.t].comp = "fail"]
                           ELSE Enqueue([s0 EXCEPT !.tasks[o.ph][o.t].comp = "fail"],
                                        "cfFailed", o.ph, o.t, FALSE)
                      ELSE IF tk.prim = "ok"
                      THEN Enqueue([s0 EXCEPT !.tasks[o.ph][o.t].comp = "done"],
                                   "cfCopied", o.ph, o.t, TRUE)
                      ELSE [s0 EXCEPT !.tasks[o.ph][o.t].comp = "done"]
       IN  Becomes(s1)
    /\ UNCHANGED io_frame

\* Line 599: both copies are done; the locks are released and the call returns.
CfCopied ==
    /\ JobReady("cfCopied")
    /\ Becomes(CfRelease(Popped, Head(micro).ph, Head(micro).t))
    /\ UNCHANGED io_frame

\* Line 598 throws: copyFileWithStructure ends there, and so does the task.
CfFailed ==
    /\ JobReady("cfFailed")
    /\ Becomes(TaskThrow(Popped, Head(micro).ph, Head(micro).t))
    /\ UNCHANGED io_frame

\* The task body continues after `await copyFileWithStructure(...)`.
AfterCopy ==
    /\ JobReady("afterCopy")
    /\ Becomes(TaskAfterCopy(Popped, Head(micro).ph, Head(micro).t))
    /\ UNCHANGED io_frame

\* Lines 687-695: run() continues after `await task()`.
Finally ==
    /\ JobReady("fin")
    /\ Becomes(CmFinally(Popped, Head(micro).ph, Head(micro).t, Head(micro).ok))
    /\ UNCHANGED io_frame

\* Line 700: waitForAll() returns to the phase that awaits it.
WaitForAllReturns ==
    /\ JobReady("wfa")
    /\ Becomes(Enqueue(Popped, "phaseRet", Head(micro).ph, 0, TRUE))
    /\ UNCHANGED io_frame

\* Lines 835, 1083: identifyNewMetadata or generateDeployPackages returns to
\* its caller.
PhaseReturns ==
    /\ JobReady("phaseRet")
    /\ Head(micro).ph \in {P1, P3}
    /\ mainPc' = At(Head(micro).ph, "returned")
    /\ Becomes(Enqueue(Popped, "mainNext", Head(micro).ph, 0, TRUE))
    /\ UNCHANGED << inputs, loopIdx, rejectionMode >>

\* The rejection of a run() promise is unhandled.  Node 15 and later throw it
\* as an uncaught exception and the process ends; earlier builds, and
\* --unhandled-rejections=warn, print a warning and go on.
RejectionThrows ==
    /\ proc = "running"
    /\ ~InSync
    /\ Len(micro) = 0
    /\ unhandled
    /\ rejectionMode = "unset"
    /\ rejectionMode' = "throw"
    /\ proc' = "crashed"
    /\ UNCHANGED << inputs, mainPc, loopIdx, heap >>

RejectionWarns ==
    /\ proc = "running"
    /\ ~InSync
    /\ Len(micro) = 0
    /\ unhandled
    /\ rejectionMode \in {"unset", "warn"}
    /\ rejectionMode' = "warn"
    /\ Becomes([Cur EXCEPT !.unhandled = FALSE])
    /\ UNCHANGED << inputs, mainPc, loopIdx >>

\* The harness: a caller of the ConcurrencyManager alone.  It calls run() at
\* any point between two jobs, and waitForAll() once, at any such point.
HarnessRun ==
    /\ proc = "running"
    /\ mainPc.ph = HARNESS
    /\ loopIdx <= Len(harnessTasks)
    /\ Becomes(CmRun(Cur, HARNESS, loopIdx))
    /\ loopIdx' = loopIdx + 1
    /\ UNCHANGED << inputs, mainPc, rejectionMode >>

HarnessWaitForAll ==
    /\ proc = "running"
    /\ mainPc = At(HARNESS, "calls")
    /\ Becomes(waitForAll(Cur, HARNESS))
    /\ mainPc' = At(HARNESS, "wait")
    /\ UNCHANGED << inputs, loopIdx, rejectionMode >>

HarnessSignalled ==
    /\ JobReady("phaseRet")
    /\ Head(micro).ph = HARNESS
    /\ mainPc' = At(HARNESS, "returned")
    /\ Becomes(Popped)
    /\ UNCHANGED << inputs, loopIdx, rejectionMode >>

\* The asynchronous operation of a harness task completes.
IoWork(o) ==
    /\ MacroReady
    /\ o \in io
    /\ o.op = "work"
    /\ Becomes(Enqueue([Cur EXCEPT !.io = @ \ {o}], "fin", o.ph, o.t,
                       harnessTasks[o.t].ok))
    /\ UNCHANGED io_frame

\* The caller that awaited identifyNewMetadata alone continues.
CallerResumes ==
    /\ JobReady("mainNext")
    /\ mainPc' = At(Head(micro).ph, "done")
    /\ Becomes(Popped)
    /\ UNCHANGED << inputs, loopIdx, rejectionMode >>

\* Lines 1216-1217: main() starts ensureSfdxProjectJson, whose file lies
\* outside the trees of the model, and awaits wipeDirectories.
Main ==
    /\ proc = "running"
    /\ mainPc = At(MAIN, "start")
    /\ mainPc' = At(MAIN, "wipe")
    /\ Becomes([Cur EXCEPT !.io = @ \cup {IoOp("remove", MAIN, 0, NoPath, NoPath, FALSE)}])
    /\ UNCHANGED << inputs, loopIdx, rejectionMode >>

\* fs.remove(DEPLOY_STAGING) completes.
IoRemove(o) ==
    /\ MacroReady
    /\ o \in io
    /\ o.op = "remove"
    /\ Becomes(Enqueue([Cur EXCEPT
                          !.io = @ \ {o},
                          !.disk = [f \in {x \in DOMAIN disk : x.root \in {SOURCE, TARGET}}
                                      |-> disk[f]],
                          !.dirs = {}],
                       "mainNext", MAIN, 0, TRUE))
    /\ UNCHANGED io_frame

\* Line 1218: main() calls identifyNewMetadata, which runs to line 775.
MainAfterWipe ==
    /\ JobReady("mainNext")
    /\ Head(micro).ph = MAIN
    /\ mainPc' = At(P1, "ensure")
    /\ Becomes(EnsureRoot(Popped, P1, NEWS_DIR))
    /\ UNCHANGED << inputs, loopIdx, rejectionMode >>

\* Line 1219: main() calls sanitizeMetadata, which runs to line 842.
MainAfterPhase1 ==
    /\ JobReady("mainNext")
    /\ Head(micro).ph = P1
    /\ mainPc' = At(P2, "ensure")
    /\ Becomes(EnsureRoot(Popped, P2, SANITIZED_DIR))
    /\ UNCHANGED << inputs, loopIdx, rejectionMode >>

\* Line 1220: main() calls generateDeployPackages, whose loop begins at once.
MainAfterPhase2 ==
    /\ JobReady("mainNext")
    /\ Head(micro).ph = P2
    /\ mainPc' = At(P3, "loop")
    /\ loopIdx' = 1
    /\ Becomes(Popped)
    /\ UNCHANGED << inputs, rejectionMode >>

\* Lines 1221-1227: main() runs to its end; the files it writes there lie
\* outside the trees of the model.
MainAfterPhase3 ==
    /\ JobReady("mainNext")
    /\ Head(micro).ph = P3
    /\ mainPc' = At(MAIN, "done")
    /\ Becomes(Popped)
    /\ UNCHANGED << inputs, loopIdx, rejectionMode >>

\* Line 997: a Phase-2 task continues after fs.ensureDir.
P2DirEnsured ==
    /\ JobReady("p2Dir")
    /\ Becomes(Phase2Lock(Popped, Head(micro).t))
    /\ UNCHANGED io_frame

\* Line 999: a Phase-2 task holds the lock of its destination.
P2Locked ==
    /\ JobReady("p2Locked")
    /\ Becomes(Phase2Write(Popped, Head(micro).t))
    /\ UNCHANGED io_frame

\* Line 571: the 100 ms of a getFileLock that found a path held are over.
IoTimer(o) ==
    /\ MacroReady
    /\ o \in io
    /\ o.op = "timer"
    /\ Becomes(Enqueue([Cur EXCEPT !.io = @ \ {o}], "lockRetry", o.ph, o.t, TRUE))
    /\ UNCHANGED io_frame

\* Line 570: getFileLock looks at the lock set again.
LockRetry ==
    /\ JobReady("lockRetry")
    /\ Becomes(LockAgain(Popped, Head(micro).ph, Head(micro).t))
    /\ UNCHANGED io_frame

\* injectHack continues after its `await Promise.all(...)` and returns.
HackWritten ==
    /\ JobReady("hackWritten")
    /\ Becomes(HackReturns(Popped, Head(micro).t, "isNoTest", TRUE))
    /\ UNCHANGED io_frame

\* Line 869: the task body continues after `await injectHack(...)`; a
\* rejected call and a result that cannot be destructured end the task.
Hacked ==
    /\ JobReady("hacked")
    /\ Becomes(IF Head(micro).ok THEN Phase2AfterHack(Popped, Head(micro).t)
               ELSE TaskThrow(Popped, P2, Head(micro).t))
    /\ UNCHANGED io_frame

\* An fs.writeFile of injectHack completes: the generated test class, or its
\* descriptor, is in the directory of the class.
IoWriteFile(o) ==
    /\ MacroReady
    /\ o \in io
    /\ o.op = "writeFile"
    /\ Becomes([Cur EXCEPT
                  !.io = @ \ {o},
                  !.disk = (o.dst :> IF o.primary
                                     THEN TestContent(ClassName(newsFiles[o.t].stem))
                                     ELSE GeneratedDescriptor) @@ @])
    /\ UNCHANGED io_frame

\* An fs.unlink of lines 883-884 completes.  A file that does not exist
\* rejects it, and the first rejection rejects the Promise.all.
IoUnlink(o) ==
    /\ MacroReady
    /\ o \in io
    /\ o.op = "unlink"
    /\ LET exists == o.dst \in DOMAIN disk
           tk == tasks[o.ph][o.t]
           other == IF o.primary THEN tk.comp ELSE tk.prim
           s0 == [Cur EXCEPT
                    !.io = @ \ {o},
                    !.disk = [f \in DOMAIN disk \ {o.dst} |-> disk[f]]]
           s1 == IF o.primary
                 THEN [s0 EXCEPT !.tasks[o.ph][o.t].prim = IF exists THEN "ok" ELSE "fail"]
                 ELSE [s0 EXCEPT !.tasks[o.ph][o.t].comp = IF exists THEN "ok" ELSE "fail"]
       IN  Becomes(IF exists /\ other = "ok"
                   THEN Enqueue(s1, "unlinked", o.ph, o.t, TRUE)
                   ELSE IF ~exists /\ other # "fail"
                        THEN Enqueue(s1, "unlinked", o.ph, o.t, FALSE)
                        ELSE s1)
    /\ UNCHANGED io_frame

\* Line 887: the task body continues after the Promise.all of the unlinks,
\* and returns, or throws what rejected it.
Unlinked ==
    /\ JobReady("unlinked")
    /\ Becomes(IF Head(micro).ok THEN TaskReturn(Popped, P2, Head(micro).t)
               ELSE TaskThrow(Popped, P2, Head(micro).t))
    /\ UNCHANGED io_frame

\* Line 1006: sanitizeMetadata continues after waitForAll().
Phase2Saves ==
    /\ JobReady("phaseRet")
    /\ Head(micro).ph = P2
    /\ mainPc' = At(P2, "save")
    /\ Becomes(saveOriginalStates(Popped))
    /\ UNCHANGED << inputs, loopIdx, rejectionMode >>

\* fs.writeJson completes.
IoWriteJson(o) ==
    /\ MacroReady
    /\ o \in io
    /\ o.op = "writeJson"
    /\ Becomes(Enqueue([Cur EXCEPT !.io = @ \ {o}, !.statesFile.written = TRUE],
                       "saved", P2, 0, TRUE))
    /\ UNCHANGED io_frame

\* Line 1007: sanitizeMetadata returns to its caller.
Phase2Returns ==
    /\ JobReady("saved")
    /\ mainPc' = At(P2, "returned")
    /\ Becomes(Enqueue(Popped, "mainNext", P2, 0, TRUE))
    /\ UNCHANGED << inputs, loopIdx, rejectionMode >>

\* Line 1068: a Phase-3 task continues after fs.ensureDir(pkgDir).
P3DirEnsured ==
    /\ JobReady("p3Dir")
    /\ Becomes(Phase3Loop(Popped, Head(micro).t))
    /\ UNCHANGED io_frame

\* fs.copy(compSourceDir, destDir) completes: what the component directory
\* holds now is in the package.
IoCopyDir(o) ==
    /\ MacroReady
    /\ o \in io
    /\ o.op = "copyDir"
    /\ LET files == {f \in DOMAIN disk : Below(f, o.src)}
           subdirs == {d \in dirs : Below(d, o.src)}
       IN  Becomes(Enqueue(
               [Cur EXCEPT
                  !.io = @ \ {o},
                  !.disk = [f \in {Rebase(x, o.dst.root) : x \in files}
                              |-> disk[Rebase(f, o.src.root)]] @@ @,
                  !.dirs = @ \cup {o.dst} \cup {Rebase(d, o.dst.root) : d \in subdirs}],
               "p3Copied", o.ph, o.t, TRUE))
    /\ UNCHANGED io_frame

\* Line 1071: the loop over the components continues after a copy.
P3Copied ==
    /\ JobReady("p3Copied")
    /\ Becomes(Phase3Loop(Popped, Head(micro).t))
    /\ UNCHANGED io_frame

\* ---------------------------------------------------------- initial states
\* The source trees with their target baselines: every file of the tree holds
\* one of its texts, and the baseline holds nothing, the same text laid out
\* differently, or another text at the same relative path.
RECURSIVE Disks(_, _)
Disks(files, i) ==
    IF i > Len(files) THEN { << >> }
    ELSE UNION { UNION { { (files[i] :> st)
                           @@ (IF bt = ABSENT THEN << >>
                               ELSE (Rebase(files[i], TARGET) :> bt))
                           @@ rest : rest \in Disks(files, i + 1) }
                         : bt \in BaselineTexts(st) }
                 : st \in SourceTexts(files[i]) }

InitRegistries ==
    /\ call = NoCall
    /\ dirs = {}
    /\ newsFiles = << >>
    /\ testClassesCounterSet = {}
    /\ testClassCount = 0
    /\ dirCreatedSet = {}
    /\ originalStates = << >>
    /\ statesFile = [given |-> FALSE, written |-> FALSE, value |-> << >>]
    /\ loopIdx = 1
    /\ micro = << >>
    /\ io = {}
    /\ CREATED_FILES_SET = {}
    /\ CREATED_DIRS_SET = {}
    /\ lockedFiles = {}
    /\ copiedFiles = {}
    /\ copyLog = EmptyBag
    /\ unhandled = FALSE
    /\ rejectionMode = "unset"
    /\ proc = "running"

InitPhase1 ==
    /\ maxConcurrent \in 1..MaxCpus
    /\ exceptionMap \in {ExceptionsNone, ExceptionsClasses}
    /\ sourceFiles \in SourceTrees
    /\ harnessTasks = << >>
    /\ disk \in Disks(sourceFiles, 1)
    /\ mainPc = At(P1, "start")
    /\ cm = [ph \in Phases |-> NewManager]
    /\ tasks = [ph \in Phases |->
                  IF ph = P1 THEN [i \in 1..Len(sourceFiles) |-> NewTask]
                  ELSE << >>]
    /\ InitRegistries

NextPhase1 ==
    \/ IdentifyNewMetadata
    \/ \E o \in io : IoEnsureDir(o)
    \/ BeginLoop
    \/ Submit
    \/ AwaitAll
    \/ Resume
    \/ CfDirEnsured
    \/ CfLocked
    \/ \E o \in io : IoCopy(o)
    \/ CfCopied
    \/ CfFailed
    \/ AfterCopy
    \/ Finally
    \/ WaitForAllReturns
    \/ PhaseReturns
    \/ CallerResumes
    \/ RejectionThrows
    \/ RejectionWarns

\* identifyNewMetadata called on its own.
SpecPhase1 == InitPhase1 /\ [][NextPhase1]_vars

\* The tasks the harness passes: each returns (ok) or throws, at once (sync)
\* or after an asynchronous operation.
HarnessTaskLists ==
    UNION { [1..n -> [sync : BOOLEAN, ok : BOOLEAN]] : n \in 0..MaxTasks }

InitManager ==
    /\ maxConcurrent \in 1..MaxCpus
    /\ exceptionMap = ExceptionsNone
    /\ sourceFiles = << >>
    /\ harnessTasks \in HarnessTaskLists
    /\ disk = << >>
    /\ mainPc = At(HARNESS, "calls")
    /\ cm = [ph \in Phases |-> NewManager]
    /\ tasks = [ph \in Phases |->
                  IF ph = HARNESS THEN [i \in 1..Len(harnessTasks) |-> NewTask]
                  ELSE << >>]
    /\ InitRegistries

NextManager ==
    \/ HarnessRun
    \/ HarnessWaitForAll
    \/ \E o \in io : IoWork(o)
    \/ Resume
    \/ Finally
    \/ WaitForAllReturns
    \/ HarnessSignalled
    \/ RejectionThrows
    \/ RejectionWarns

\* The ConcurrencyManager under any caller.
SpecManager == InitManager /\ [][NextManager]_vars

\* What a run may find in the staging tree from the run before it.
StaleStaging == { << >>, (Rebase(TRIGGER_META, NEWS_DIR) :> TextOther) }

Init ==
    /\ maxConcurrent \in 1..MaxCpus
    /\ sourceFiles \in PipelineTrees
    /\ exceptionMap \in
          IF APEX_CLASS \in SeqRange(sourceFiles)
          THEN {ExceptionsNone, ExceptionsIncludeTests}
          ELSE {ExceptionsNone}
    /\ harnessTasks = << >>
    /\ disk \in {d @@ stale : d \in Disks(sourceFiles, 1), stale \in StaleStaging}
    /\ mainPc = At(MAIN, "start")
    /\ cm = [ph \in Phases |-> NewManager]
    /\ tasks = [ph \in Phases |->
                  CASE ph = P1 -> [i \in 1..Len(sourceFiles) |-> NewTask]
                    [] ph = P3 -> [i \in 1..Len(PACKAGES) |-> NewTask]
                    [] OTHER -> << >>]
    /\ InitRegistries

Next ==
    \/ Main
    \/ \E o \in io : IoRemove(o)
    \/ MainAfterWipe
    \/ \E o \in io : IoEnsureDir(o)
    \/ BeginLoop
    \/ Submit
    \/ AwaitAll
    \/ Resume
    \/ CfDirEnsured
    \/ CfLocked
    \/ \E o \in io : IoCopy(o)
    \/ CfCopied
    \/ CfFailed
    \/ AfterCopy
    \/ Finally
    \/ WaitForAllReturns
    \/ PhaseReturns
    \/ MainAfterPhase1
    \/ P2DirEnsured
    \/ P2Locked
    \/ \E o \in io : IoTimer(o)
    \/ LockRetry
    \/ HackWritten
    \/ Hacked
    \/ \E o \in io : IoWriteFile(o)
    \/ \E o \in io : IoUnlink(o)
    \/ Unlinked
    \/ Phase2Saves
    \/ \E o \in io : IoWriteJson(o)
    \/ Phase2Returns
    \/ MainAfterPhase2
    \/ P3DirEnsured
    \/ \E o \in io : IoCopyDir(o)
    \/ P3Copied
    \/ MainAfterPhase3
    \/ RejectionThrows
    \/ RejectionWarns

\* main(): the whole pipeline.
Spec == Init /\ [][Next]_vars

\* The harness on an event loop that runs a job or completes an operation
\* whenever one is ready.
FairManager == SpecManager /\ WF_vars(NextManager)

\* ------------------------------------------------------- the lock alone
\* The paths the callers of the lock harness ask for: a file of the
\* sanitized tree and its companion.
LockPaths ==
    {Rebase(TRIGGER, SANITIZED_DIR), Rebase(TRIGGER_META, SANITIZED_DIR)}

\* The callers: each asks for one or more paths, writes (one asynchronous
\* operation) and releases; a caller whose write fails does not release
\* (lines 597-599 are not inside try/finally).
LockTaskLists ==
    UNION { [1..n -> [paths : (SUBSET LockPaths) \ {{}}, ok : BOOLEAN]]
            : n \in 1..MaxTasks }

InitLocks ==
    /\ maxConcurrent = 1
    /\ exceptionMap = ExceptionsNone
    /\ sourceFiles = << >>
    /\ harnessTasks \in LockTaskLists
    /\ disk = << >>
    /\ mainPc = At(HARNESS, "calls")
    /\ cm = [ph \in Phases |-> NewManager]
    /\ tasks = [ph \in Phases |->
                  IF ph = HARNESS THEN [i \in 1..Len(harnessTasks) |-> NewTask]
                  ELSE << >>]
    /\ InitRegistries

\* Lines 597, 998: a caller calls `await getFileLock(...paths)`, at any point
\* between two jobs.
HarnessLock ==
    /\ proc = "running"
    /\ mainPc.ph = HARNESS
    /\ loopIdx <= Len(harnessTasks)
    /\ Becomes(getFileLock([Cur EXCEPT !.tasks[HARNESS][loopIdx].pc = "running"],
                           HARNESS, loopIdx, harnessTasks[loopIdx].paths,
                           "hLocked"))
    /\ loopIdx' = loopIdx + 1
    /\ UNCHANGED << inputs, mainPc, rejectionMode >>

\* Lines 598, 999: the caller continues after getFileLock and starts its
\* write.
HarnessLocked ==
    /\ JobReady("hLocked")
    /\ Becomes([Popped EXCEPT
                  !.io = @ \cup {IoOp("work", HARNESS, Head(micro).t,
                                      NoPath, NoPath, FALSE)}])
    /\ UNCHANGED io_frame

\* Lines 599, 1000: the write is over; releaseFileLock(...paths) unless it
\* failed.
HarnessRelease ==
    /\ JobReady("fin")
    /\ LET t == Head(micro).t
       IN  Becomes(IF Head(micro).ok
                   THEN [releaseFileLock(Popped, HARNESS, t, harnessTasks[t].paths)
                           EXCEPT !.tasks[HARNESS][t].pc = "done"]
                   ELSE [Popped EXCEPT !.tasks[HARNESS][t].pc = "failed"])
    /\ UNCHANGED io_frame

NextLocks ==
    \/ HarnessLock
    \/ \E o \in io : IoTimer(o)
    \/ LockRetry
    \/ HarnessLocked
    \/ \E o \in io : IoWork(o)
    \/ HarnessRelease

\* getFileLock and releaseFileLock under any caller.
SpecLocks == InitLocks /\ [][NextLocks]_vars

\* The same on an event loop that runs a job whenever one is ready and
\* completes every operation and every timer that was started: the loop
\* visits its timers and its completed operations on every turn.
FairLocks ==
    /\ SpecLocks
    /\ WF_vars(NextLocks)
    /\ \A t \in 1..MaxTasks : SF_vars(\E o \in io : o.t = t /\ IoWork(o))
    /\ \A t \in 1..MaxTasks : SF_vars(\E o \in io : o.t = t /\ IoTimer(o))

\* ------------------------------------------------- functions on their own
\* A call that has not been made yet.
Call(fn, args) == [fn |-> fn, args |-> args, done |-> FALSE, result |-> << >>]

\* The relative paths isPathException is called with.
ExceptionPaths ==
    { MkPath(SOURCE, <<"classes">>, "Foo.cls", TRUE),
      MkPath(SOURCE, <<"classes">>, "Foo.cls", FALSE),
      MkPath(SOURCE, <<"objects", "Account">>, "Account.object", TRUE),
      MkPath(SOURCE, <<"objects", "Account", "fields">>, "Foo.field", TRUE),
      MkPath(SOURCE, <<"objects", "Case">>, "Case.object", TRUE),
      MkPath(SOURCE, << >>, "Foo.cls", TRUE) }

\* The patterns of its lists: /Foo\.cls-meta\.xml$/, /foo\.cls-meta\.xml$/,
\* /^objects\//, and the literals Account/fields/Foo.field-meta.xml, the
\* same in another case, behind "./", and behind the category, and
\* Foo.cls-meta.xml.
ExceptionPatterns ==
    { RegexPattern("Foo.cls", TRUE),
      RegexPattern("foo.cls", TRUE),
      RegexStart("objects"),
      LiteralPattern(<<"Account", "fields">>, "Foo.field", TRUE),
      LiteralPattern(<<"ACCOUNT", "Fields">>, "Foo.field", TRUE),
      LiteralPattern(<<".", "Account", "fields">>, "Foo.field", TRUE),
      LiteralPattern(<<"objects", "Account", "fields">>, "Foo.field", TRUE),
      LiteralPattern(<< >>, "Foo.cls", TRUE) }

\* The lists hold at most MaxPatterns patterns.
PatternLists == UNION { [1..n -> ExceptionPatterns] : n \in 0..MaxPatterns }

\* The characters of the contents removeComments is called with.
CommentChars == {"'", "\\", "/", "*", "\n", "a"}

\* The contents hold at most MaxChars characters.
Contents == UNION { [1..n -> CommentChars] : n \in 0..MaxChars }

\* specifiedTests: the empty string without specifiedTests.txt, else what
\* processApexFiles wrote for no, one and two test classes.
SpecifiedTests ==
    { << >>,
      <<"--tests \"", "\"">>,
      <<"--tests \"", "FooTest", "\"">>,
      <<"--tests \"", "FooTest", "\"\n --tests \"", "tXPTO0", "\"">> }

\* The documents removeElement and removeElements are called with: below the
\* root, elements of two names in two levels, each with at most MaxChildren
\* children.
TreeNames == {"activeVersionNumber", "FlowDefinition"}

Leaves == {Element(n, << >>) : n \in TreeNames}

Branches ==
    {Element(n, e) : n \in TreeNames,
                     e \in UNION {[1..k -> Leaves] : k \in 0..MaxChildren}}

Trees == {Root(e) : e \in UNION {[1..k -> Branches] : k \in 0..MaxChildren}}

Calls ==
    { Call("isPathException", [relativePath |-> p, exceptions |-> e])
        : p \in ExceptionPaths, e \in PatternLists }
    \cup { Call(fn, [xmlObj |-> x, nodeName |-> "activeVersionNumber"])
             : fn \in {"removeElement", "removeElements"}, x \in Trees }
    \cup { Call("removeComments", [content |-> c]) : c \in Contents }
    \cup { Call("generateDeployCommands", [specifiedTests |-> t])
             : t \in SpecifiedTests }

InitCalls ==
    /\ maxConcurrent = 1
    /\ exceptionMap = ExceptionsNone
    /\ sourceFiles = << >>
    /\ harnessTasks = << >>
    /\ disk = << >>
    /\ mainPc = At(MAIN, "start")
    /\ cm = [ph \in Phases |-> NewManager]
    /\ tasks = [ph \in Phases |-> << >>]
    /\ dirs = {}
    /\ newsFiles = << >>
    /\ testClassesCounterSet = {}
    /\ testClassCount = 0
    /\ dirCreatedSet = {}
    /\ originalStates = << >>
    /\ statesFile = [given |-> FALSE, written |-> FALSE, value |-> << >>]
    /\ loopIdx = 1
    /\ micro = << >>
    /\ io = {}
    /\ CREATED_FILES_SET = {}
    /\ CREATED_DIRS_SET = {}
    /\ lockedFiles = {}
    /\ copiedFiles = {}
    /\ copyLog = EmptyBag
    /\ unhandled = FALSE
    /\ rejectionMode = "unset"
    /\ proc = "running"
    /\ call \in Calls

\* What a function called on its own leaves alone.
call_frame ==
    << maxConcurrent, exceptionMap, sourceFiles, harnessTasks, mainPc, loopIdx,
       rejectionMode, proc, heap >>

Returns(result) == call' = [call EXCEPT !.done = TRUE, !.result = result]

\* isPathException(relativePath, exceptions)
CallIsPathException ==
    /\ call.fn = "isPathException"
    /\ ~call.done
    /\ Returns(isPathException(call.args.relativePath, call.args.exceptions))
    /\ UNCHANGED call_frame

\* removeComments(content)
CallRemoveComments ==
    /\ call.fn = "removeComments"
    /\ ~call.done
    /\ Returns(removeComments(call.args.content))
    /\ UNCHANGED call_frame

\* generateDeployCommands() beside a specifiedTests.txt of the given text.
CallGenerateDeployCommands ==
    /\ call.fn = "generateDeployCommands"
    /\ ~call.done
    /\ Returns(generateDeployCommands(call.args.specifiedTests))
    /\ UNCHANGED call_frame

\* removeElement(xmlObj, nodeName): the result is xmlObj after the call.
CallRemoveElement ==
    /\ call.fn = "removeElement"
    /\ ~call.done
    /\ Returns(removeElement(call.args.xmlObj, call.args.nodeName))
    /\ UNCHANGED call_frame

\* removeElements(xmlObj, nodeName): xmlObj after the call and what the call
\* returned.
CallRemoveElements ==
    /\ call.fn = "removeElements"
    /\ ~call.done
    /\ Returns([xmlObj |-> removeElements(call.args.xmlObj, call.args.nodeName),
                returned |-> removeElementsReturns(call.args.xmlObj,
                                                   call.args.nodeName)])
    /\ UNCHANGED call_frame

NextCalls ==
    \/ CallIsPathException
    \/ CallRemoveComments
    \/ CallGenerateDeployCommands
    \/ CallRemoveElement
    \/ CallRemoveElements

SpecCalls == InitCalls /\ [][NextCalls]_vars

\* ================================================================== claims
Ended(ph, t) == tasks[ph][t].pc \in {"done", "failed"}

\* Every task passed to run() so far has finished.
AllFinished(ph) ==
    \A t \in 1..Len(tasks[ph]) : tasks[ph][t].pc \in {"idle", "done", "failed"}

\* Every task of the phase has been passed to run() and has finished.
AllEnded(ph) == \A t \in 1..Len(tasks[ph]) : Ended(ph, t)

\* The fs.copy calls task t of phase ph has made.
CopiesBy(ph, t) == {e \in BagToSet(copyLog) : e.ph = ph /\ e.t = t}

Staged(p) == Rebase(p, NEWS_DIR) \in DOMAIN disk

\* Some task of the phase has started.
Started(ph) ==
    \E t \in 1..Len(tasks[ph]) : tasks[ph][t].pc \in {"running", "done", "failed"}

\* Some task of the phase was passed to run() and has not finished.
Unfinished(ph) ==
    \E t \in 1..Len(tasks[ph]) : tasks[ph][t].pc \in {"queued", "woken", "running"}

\* C1: no task of Phase 2 has started while a task of Phase 1 is unfinished,
\* and no task of Phase 3 has started while a task of Phase 2 is unfinished.
C1_PhaseBarrier ==
    /\ Started(P2) => ~Unfinished(P1)
    /\ Started(P3) => ~Unfinished(P2)

\* C2: the completion signal of a ConcurrencyManager fires only in a state
\* in which every task passed to run() has finished: none is running, none
\* is queued, and none that was woken is still waiting to start.
C2_SignalOnlyWhenAllFinished ==
    [][\A ph \in Phases :
          (~cm[ph].resolved /\ cm'[ph].resolved) =>
              \A t \in 1..Len(tasks'[ph]) :
                  tasks'[ph][t].pc \in {"idle", "done", "failed"}]_vars

\* C3: the number of tasks started and not finished never exceeds
\* maxConcurrent.
C3_RunningWithinCeiling ==
    \A ph \in Phases :
        Cardinality({t \in 1..Len(tasks[ph]) : tasks[ph][t].pc = "running"})
            <= maxConcurrent

\* C4: within a phase, no destination path is the destination of more than
\* one fs.copy call.
C4_AtMostOneCopyPerDestination ==
    \A e1, e2 \in BagToSet(copyLog) :
        (e1.ph = e2.ph /\ e1.dst = e2.dst) =>
            (e1 = e2 /\ CopiesIn(e1, copyLog) = 1)

\* Two tasks have both gone through the materialization of the same
\* composite-root descriptor, and it is staged.
C4_Witness ==
    \E t1, t2 \in 1..Len(sourceFiles) :
        /\ t1 # t2
        /\ tasks[P1][t1].pc = "done" /\ tasks[P1][t1].stage = 2
        /\ tasks[P1][t2].pc = "done" /\ tasks[P1][t2].stage = 2
        /\ ObjectFile(sourceFiles[t1]) = ObjectFile(sourceFiles[t2])
        /\ Staged(ObjectFile(sourceFiles[t1]))

\* C5: once a task has ended, by success or by failure, none of the paths it
\* took with getFileLock remains in the lock set.
C5_LocksReleasedWhenTaskEnds ==
    \A ph \in Phases : \A t \in 1..Len(tasks[ph]) :
        Ended(ph, t) => tasks[ph][t].held \cap lockedFiles = {}

\* The root descriptor objects/X/X.object-meta.xml of the object a path
\* objects/X/... belongs to.
RootDescriptorOf(p) ==
    MkPath(p.root, <<"objects", p.dirs[2]>>, ObjectStem(p.dirs[2]), TRUE)

UnderObject(p) == Len(p.dirs) >= 2 /\ p.dirs[1] = "objects"

\* C6: when Phase 1 is over, for every staged file objects/X/... the root
\* descriptor objects/X/X.object-meta.xml (which the source tree holds) is
\* staged too.
C6_RootDescriptorStaged ==
    AllEnded(P1) =>
        \A p \in SeqRange(sourceFiles) :
            (UnderObject(p) /\ Staged(p)
               /\ RootDescriptorOf(p) \in DOMAIN disk)
            => Staged(RootDescriptorOf(p))

\* A list-view descriptor objects/X/listViews/*-meta.xml of personal scope.
MineListView(p) ==
    /\ Len(p.dirs) = 3
    /\ p.dirs[1] = "objects"
    /\ p.dirs[3] = "listViews"
    /\ p.meta
    /\ Includes(disk[p], FILTER_SCOPE_MINE)

\* C7: the task of a list-view descriptor under objects/ that holds
\* <filterScope>Mine</filterScope> copies nothing.
C7_MineListViewSuppressed ==
    \A t \in 1..Len(sourceFiles) :
        MineListView(sourceFiles[t]) => CopiesBy(P1, t) = {}

\* classes/Foo.cls-meta.xml under the declaration
\* {"classes": {"ignoredPaths": ["/Foo\\.cls-meta\\.xml$/"]}}
IgnoredByDeclaration(p) ==
    /\ exceptionMap = ExceptionsClasses
    /\ p.dirs = <<"classes">> /\ p.stem = "Foo.cls" /\ p.meta

\* C8: the task of a source file that an ignoredPaths pattern of its category
\* matches copies nothing, whatever the baseline holds.
C8_IgnoredFileNotCopiedByItsTask ==
    \A t \in 1..Len(sourceFiles) :
        IgnoredByDeclaration(sourceFiles[t]) => CopiesBy(P1, t) = {}

Baseline(p) == Rebase(p, TARGET)
IsNew(p) == Baseline(p) \notin DOMAIN disk
IsChanged(p) ==
    ~IsNew(p) /\ StripFrom(disk[p], 1) # StripFrom(disk[Baseline(p)], 1)
IsUnchanged(p) == ~IsNew(p) /\ ~IsChanged(p)

\* The task of an ignored file has ended although the file is new or changed.
C8_Witness ==
    \E t \in 1..Len(sourceFiles) :
        /\ IgnoredByDeclaration(sourceFiles[t])
        /\ ~IsUnchanged(sourceFiles[t])
        /\ tasks[P1][t].pc = "done"

\* The suppression rules of Phase 1: an ignoredPaths match, a standard value
\* set without <standardValue>, a list view of personal scope.
SuppressedByRule(p) ==
    \/ IgnoredByDeclaration(p)
    \/ p.dirs = <<"standardValueSets">> /\ ~Includes(disk[p], STANDARD_VALUE)
    \/ MineListView(p)

\* C9: when Phase 1 is over, every source file that no rule suppresses is
\* staged if it is new or changed, and the task of an unchanged one has
\* copied nothing.
C9_NewAndChangedCopied ==
    AllEnded(P1) =>
        \A t \in 1..Len(sourceFiles) :
            LET p == sourceFiles[t]
            IN  ~SuppressedByRule(p) =>
                    /\ (IsNew(p) \/ IsChanged(p)) => Staged(p)
                    /\ IsUnchanged(p) => CopiesBy(P1, t) = {}

\* Phase 1 is over for a tree with a new, a changed or an unchanged file.
C9_Witness ==
    /\ AllEnded(P1)
    /\ \E t1, t2 \in 1..Len(sourceFiles) :
          /\ ~SuppressedByRule(sourceFiles[t1]) /\ IsChanged(sourceFiles[t1])
          /\ Staged(sourceFiles[t1])
          /\ ~SuppressedByRule(sourceFiles[t2]) /\ IsUnchanged(sourceFiles[t2])
          /\ disk[sourceFiles[t2]] # disk[Baseline(sourceFiles[t2])]

\* Every source file has a baseline counterpart of the same normalized text.
NothingToPromote == \A p \in SeqRange(sourceFiles) : IsUnchanged(p)

\* C10: when every source file has a baseline counterpart with the same
\* normalized content, no task copies anything and staging stays empty.
C10_Idempotent ==
    NothingToPromote =>
        /\ copyLog = EmptyBag
        /\ \A p \in DOMAIN disk : p.root # NEWS_DIR

\* Phase 1 has returned for a tree of two unchanged files.
C10_Witness ==
    /\ NothingToPromote
    /\ Len(sourceFiles) = 2
    /\ AllEnded(P1)
    /\ mainPc = At(P1, "done")


\* ------------------------------------------------------- Phase 2, per task
\* The file task t of Phase 2 works on, and where its sanitized form goes.
NewsFile(t) == newsFiles[t]
SanitizedPath(t) == Rebase(newsFiles[t], SANITIZED_DIR)
IsSanitized(t) == SanitizedPath(t) \in DOMAIN disk

P2Tasks == 1..Len(tasks[P2])

\* The text of the first element of that name in a document, and << >> for a
\* document without one.
TextOf(doc, name) ==
    LET xmlObj == parseXml(doc).xmlObj
        pos == findElement(xmlObj, name)
    IN  IF pos = << >> \/ ~HasFirst(NodeAt(xmlObj, pos)) THEN << >>
        ELSE FirstText(NodeAt(xmlObj, pos))

WellFormed(doc) == parseXml(doc).ok

IsValidationRuleFile(file) ==
    /\ file.meta
    /\ Len(file.dirs) > 0 /\ file.dirs[1] = "objects"
    /\ \E i \in 1..Len(file.dirs) : file.dirs[i] = "validationRules"

\* Task t has read a well-formed validation rule whose active text is true.
ActiveRuleStaged(t) ==
    /\ IsValidationRuleFile(NewsFile(t))
    /\ WellFormed(disk[NewsFile(t)])
    /\ TextOf(disk[NewsFile(t)], "active") = <<"true">>

RECURSIVE CountNamed(_, _)
CountNamed(xmlObj, name) ==
    LET below == [k \in 1..Len(xmlObj.elements) |->
                     CountNamed(xmlObj.elements[k], name)
                     + (IF xmlObj.elements[k].name = name THEN 1 ELSE 0)]
        Sum[k \in 0..Len(below)] == IF k = 0 THEN 0 ELSE Sum[k - 1] + below[k]
    IN  Sum[Len(below)]

Count(doc, name) == CountNamed(parseXml(doc).xmlObj, name)

IsFlowDefinitionFile(file) ==
    file.meta /\ Len(file.dirs) > 0 /\ file.dirs[1] = "flowDefinitions"

\* Task t has read a well-formed flow definition.
FlowDefinitionStaged(t) ==
    IsFlowDefinitionFile(NewsFile(t)) /\ WellFormed(disk[NewsFile(t)])

\* The flow definition of task t is deactivated: the sanitized document has
\* no activeVersionNumber element, and originalStates holds the text of the
\* first such element of the staged document under the path.
Deactivated(t) ==
    /\ IsSanitized(t)
    /\ WellFormed(disk[SanitizedPath(t)])
    /\ Count(disk[SanitizedPath(t)], "activeVersionNumber") = 0
    /\ NewsFile(t) \in DOMAIN originalStates
    /\ originalStates[NewsFile(t)] =
           [type |-> "FlowDefinition",
            originalValue |-> TextOf(disk[NewsFile(t)], "activeVersionNumber")]

\* C12 as stated: once the Phase-2 task of a staged flow definition that has
\* an activeVersionNumber element has ended, the flow definition is
\* deactivated.
C12_EveryFlowDefinitionDeactivated ==
    \A t \in P2Tasks :
        (/\ Ended(P2, t)
         /\ FlowDefinitionStaged(t)
         /\ Count(disk[NewsFile(t)], "activeVersionNumber") >= 1)
        => Deactivated(t)

\* What holds: once the Phase-2 task of a staged flow definition that has
\* exactly one activeVersionNumber element has ended, the flow definition is
\* deactivated, when the file the descriptor is the companion of is not
\* staged (its task copies the staged descriptor to the same destination).
C12_SingleVersionDeactivated ==
    \A t \in P2Tasks :
        (/\ Ended(P2, t)
         /\ FlowDefinitionStaged(t)
         /\ Count(disk[NewsFile(t)], "activeVersionNumber") = 1
         /\ fileCounterPath(NewsFile(t)) \notin SeqRange(newsFiles))
        => Deactivated(t)

\* A flow definition with one activeVersionNumber element has been sanitized
\* and the states file is written.
C12_Witness ==
    \E t \in P2Tasks :
        /\ tasks[P2][t].pc = "done"
        /\ FlowDefinitionStaged(t)
        /\ Count(disk[NewsFile(t)], "activeVersionNumber") = 1
        /\ Deactivated(t)
        /\ statesFile.written



\* C13: once the Phase-2 task of a staged flow definition without an
\* activeVersionNumber element has ended, the sanitized tree holds the
\* document with the staged bytes, and originalStates has no entry for it.
C13_InactiveFlowDefinitionCopied ==
    \A t \in P2Tasks :
        (/\ Ended(P2, t)
         /\ FlowDefinitionStaged(t)
         /\ Count(disk[NewsFile(t)], "activeVersionNumber") = 0)
        => /\ IsSanitized(t)
           /\ disk[SanitizedPath(t)] = disk[NewsFile(t)]
           /\ NewsFile(t) \notin DOMAIN originalStates



\* A sanitization rule of Phase 2 names the place of the file: web links and
\* validation rules of objects, root descriptors of objects, classes, and
\* the categories with a rule of their own.
RuleMatches(file) ==
    \/ IsWebLink(file)
    \/ IsValidationRuleFile(file)
    \/ IsObjectDescriptor(file) /\ Len(file.dirs) > 0 /\ file.dirs[1] = "objects"
    \/ \E i \in 1..Len(file.dirs) : file.dirs[i] = "queues"
    \/ /\ Len(file.dirs) > 0
       /\ file.dirs[1] \in {"classes", "permissionsets", "flows",
                            "queueRoutingConfigs", "flowDefinitions"}

\* No rule matches the file, or the rule that does finds nothing to change
\* in the document: a validation rule that is not active, an object without
\* action overrides and compact layout.
NothingToSanitize(file, doc) ==
    \/ ~RuleMatches(file)
    \/ /\ WellFormed(doc)
       /\ \/ /\ IsValidationRuleFile(file)
             /\ TextOf(doc, "active") \notin {<< >>, <<"true">>}
          \/ /\ IsObjectDescriptor(file)
             /\ Count(doc, "actionOverrides") = 0
             /\ Count(doc, "compactLayoutAssignment") = 0

\* C14: the sanitized form of a staged file that no rule matches, or that the
\* matching rule leaves as it is, holds the bytes of the staged file.
C14_UntouchedBytesEqual ==
    \A t \in P2Tasks :
        (IsSanitized(t) /\ NothingToSanitize(NewsFile(t), disk[NewsFile(t)]))
        => disk[SanitizedPath(t)] = disk[NewsFile(t)]

\* A descriptor that no rule matches was written by its own task, in a layout
\* that is not the one buildXml writes.
C14_Witness ==
    \E t \in P2Tasks :
        /\ tasks[P2][t].pc = "done"
        /\ tasks[P2][t].stage = 2
        /\ NewsFile(t).meta
        /\ ~RuleMatches(NewsFile(t))
        /\ IsSanitized(t)
        /\ disk[NewsFile(t)] # buildXml(parseXml(disk[NewsFile(t)]).xmlObj)



IsPermissionSetFile(file) ==
    file.meta /\ Len(file.dirs) > 0 /\ file.dirs[1] = "permissionsets"

\* The children of the first element of that name in a document.
ChildrenOf(doc, name) ==
    LET xmlObj == parseXml(doc).xmlObj
        pos == findElement(xmlObj, name)
    IN  IF pos = << >> THEN << >> ELSE NodeAt(xmlObj, pos).elements

\* The label elements among the children of the PermissionSet element of a
\* document, in their order.
Labels(doc) ==
    SelectSeq(ChildrenOf(doc, "PermissionSet"), LAMBDA e : e.name = "label")

ChildText(elem, name) ==
    LET hits == {k \in 1..Len(elem.elements) : elem.elements[k].name = name}
        first == CHOOSE k \in hits : \A h \in hits : k <= h
    IN  IF hits = {} \/ ~HasFirst(elem.elements[first]) THEN << >>
        ELSE FirstText(elem.elements[first])

\* The actionOverrides elements below xmlObj at any depth, in document order,
\* each as its action name and its type.
RECURSIVE OverridesIn(_)
OverridesIn(xmlObj) ==
    LET own(e) ==
            IF e.name = "actionOverrides"
            THEN << [actionName |-> ChildText(e, "actionName"),
                     type |-> ChildText(e, "type")] >>
            ELSE << >>
        Cat[k \in 0..Len(xmlObj.elements)] ==
            IF k = 0 THEN << >>
            ELSE Cat[k - 1] \o own(xmlObj.elements[k])
                            \o OverridesIn(xmlObj.elements[k])
    IN  Cat[Len(xmlObj.elements)]

Overrides(doc) == OverridesIn(parseXml(doc).xmlObj)

\* The action names the spec wants stripped whatever the type.
Denylist == {<<"ResumeBilling">>}

IsStandard(o) == o.type = <<"Default">> /\ o.actionName \notin Denylist

\* Task t has read the well-formed root descriptor of an object.
ObjectStaged(t) ==
    /\ IsObjectDescriptor(NewsFile(t))
    /\ Len(NewsFile(t).dirs) > 0 /\ NewsFile(t).dirs[1] = "objects"
    /\ WellFormed(disk[NewsFile(t)])

C17_DenylistedOverrideStripped ==
    \A t \in P2Tasks :
        (ObjectStaged(t) /\ IsSanitized(t)) =>
            \A k \in DOMAIN Overrides(disk[SanitizedPath(t)]) :
                Overrides(disk[SanitizedPath(t)])[k].actionName \notin Denylist


\* The file of task t is a class, not a descriptor, directly under classes/.
IsClassFile(file) == ~file.meta /\ file.dirs = <<"classes">>

\* The classes includeTests patterns match the file.
ForceIncluded(file) ==
    /\ "classes" \in DOMAIN exceptionMap
    /\ isPathException(file, exceptionMap["classes"].includeTests)

\* Phase 2 is through with the test class of task t: the coverage
\* collaborator reported isTest for it, its companion descriptor was staged
\* with it, the task has ended, and no file operation of it is outstanding.
TestClassSettled(t) ==
    /\ IsClassFile(NewsFile(t))
    /\ tasks[P2][t].hack = "isTest"
    /\ fileCounterPath(NewsFile(t)) \in DOMAIN disk
    /\ Ended(P2, t)
    /\ ~\E o \in io : o.ph = P2 /\ o.t = t

\* C18: once Phase 2 is through with a test class directly under classes/,
\* a class that includeTests does not match is gone from the sanitized tree
\* together with its descriptor, and the descriptor is in the set of
\* excluded files; a class that includeTests matches is in the sanitized
\* tree together with its descriptor.
C18_TestClassExcludedUnlessIncluded ==
    \A t \in P2Tasks :
        TestClassSettled(t) =>
            IF ForceIncluded(NewsFile(t))
            THEN /\ IsSanitized(t)
                 /\ fileCounterPath(SanitizedPath(t)) \in DOMAIN disk
            ELSE /\ ~IsSanitized(t)
                 /\ fileCounterPath(SanitizedPath(t)) \notin DOMAIN disk
                 /\ fileCounterPath(NewsFile(t)) \in testClassesCounterSet

\* A test class that includeTests does not match has been removed.
C18_Witness ==
    \E t \in P2Tasks :
        /\ TestClassSettled(t)
        /\ ~ForceIncluded(NewsFile(t))
        /\ tasks[P2][t].pc = "done"
        /\ ~IsSanitized(t)

\* A test class that includeTests matches has been kept.
C18_WitnessIncluded ==
    \E t \in P2Tasks :
        /\ TestClassSettled(t)
        /\ ForceIncluded(NewsFile(t))
        /\ IsSanitized(t)


\* A document that ends the run when Phase 2 reads it: a descriptor that the
\* task body parses (no web link, no descriptor of a class) and that does
\* not parse, or a validation rule without `active` node.
FatalDocument(file, text) ==
    /\ file.meta
    /\ ~IsWebLink(file)
    /\ file.dirs # <<"classes">>
    /\ \/ ~parseXml(text).ok
       \/ /\ IsValidationRuleFile(file)
          /\ findElement(parseXml(text).xmlObj, "active") = << >>

\* The files that Phase 2 listed and that hold a fatal document.
FatalTasks == {t \in 1..Len(newsFiles) : FatalDocument(newsFiles[t], disk[newsFiles[t]])}

\* The task of a Phase 2 file has been started.
TaskStarted(t) ==
    t \in P2Tasks /\ tasks[P2][t].pc \in {"running", "done", "failed"}

C19_StagedFatalDocumentEndsRun ==
    (\E f \in DOMAIN disk : f.root = NEWS_DIR /\ FatalDocument(f, disk[f]))
    => /\ ~Started(P3)
       /\ ~statesFile.given


\* generateDeployPackages has returned to main.
AfterPhase3 == mainPc = At(MAIN, "done")

\* The directory of category c under a root, and the files below it.
CategoryDir(root, c) == MkPath(root, <<c>>, "", FALSE)
CategoryFiles(root, c) == {f \in DOMAIN disk : Below(f, CategoryDir(root, c))}

\* The category c of the bundle is a recursive copy of the category under
\* the source root of the bundle: the same files with the same texts, and
\* the same directories.
IsRecursiveCopy(pkg, c) ==
    /\ CategoryFiles(pkg.name, c)
         = {Rebase(f, pkg.name) : f \in CategoryFiles(pkg.baseSource, c)}
    /\ \A f \in CategoryFiles(pkg.baseSource, c) :
          Rebase(f, pkg.name) \in DOMAIN disk
          /\ disk[Rebase(f, pkg.name)] = disk[f]
    /\ \A d \in dirs :
          Below(d, CategoryDir(pkg.baseSource, c))
          => Rebase(d, pkg.name) \in dirs

\* C20: after Phase 3, a category listed for a bundle is a directory of the
\* bundle exactly when it is a directory under the source root of the
\* bundle, and then it is a recursive copy of that directory.
C20_BundlesMirrorSourceRoots ==
    AfterPhase3 =>
        \A b \in 1..Len(PACKAGES) :
            \A k \in 1..Len(PACKAGES[b].components) :
                LET pkg == PACKAGES[b]
                    c == pkg.components[k]
                IN  /\ DirExists(Cur, CategoryDir(pkg.name, c))
                         <=> DirExists(Cur, CategoryDir(pkg.baseSource, c))
                    /\ DirExists(Cur, CategoryDir(pkg.baseSource, c))
                         => IsRecursiveCopy(pkg, c)


\* A task of the phase has ended in failure.
HasFailed(ph) == \E t \in 1..Len(tasks[ph]) : tasks[ph][t].pc = "failed"

\* waitForAll() of the phase has just returned to its caller, normally.
WaitForAllReturned(ph) ==
    \E i \in 1..Len(micro) : micro[i].k = "phaseRet" /\ micro[i].ph = ph

\* C21: waitForAll does not return normally for a phase in which a task
\* has ended in failure.
C21_FailureReachesCaller ==
    \A ph \in Phases : WaitForAllReturned(ph) => ~HasFailed(ph)

\* The same with the run carried on: no task of Phase 3 starts after a task
\* of Phase 2 has ended in failure.
C21_FailedPhaseIsLast ==
    HasFailed(P2) => ~Started(P3)


\* Sanitization flips or removes the toggle of the staged file of task t: an
\* active validation rule, a flow definition with an activeVersionNumber.
ToggleStaged(t) ==
    \/ ActiveRuleStaged(t)
    \/ /\ FlowDefinitionStaged(t)
       /\ Count(disk[NewsFile(t)], "activeVersionNumber") > 0

\* The entry of the Original-State record for the file of task t.
StateEntry(t) ==
    IF IsValidationRuleFile(NewsFile(t))
    THEN [type |-> "ValidationRule", originalValue |-> <<"true">>]
    ELSE [type |-> "FlowDefinition",
          originalValue |-> TextOf(disk[NewsFile(t)], "activeVersionNumber")]

\* C22: the Original-State record is handed to the writer only after every
\* task of Phase 2 has finished, and what is written has exactly one entry
\* {type, originalValue} for each staged file whose toggle sanitization
\* flipped or removed, under the path of the file, and no other entry.
C22_StatesSavedAfterPhase2 ==
    statesFile.given =>
        /\ AllEnded(P2)
        /\ DOMAIN statesFile.value = {NewsFile(t) : t \in {u \in P2Tasks : ToggleStaged(u)}}
        /\ \A t \in P2Tasks :
              ToggleStaged(t) => statesFile.value[NewsFile(t)] = StateEntry(t)

\* What is written is the record of the toggles, whenever it is written.
C22_StatesRecordToggles ==
    statesFile.given =>
        /\ DOMAIN statesFile.value = {NewsFile(t) : t \in {u \in P2Tasks : ToggleStaged(u)}}
        /\ \A t \in P2Tasks :
              ToggleStaged(t) => statesFile.value[NewsFile(t)] = StateEntry(t)


\* Two names are equal but for the case of their letters.
SameName(a, b) == Lower(a) = Lower(b)

\* The segments of a literal pattern as a path: without the segments that
\* name no directory ("." and the empty segment).
PatternSegments(pattern) ==
    SelectSeq(pattern.dirs, LAMBDA seg : seg \notin {"", "."})

\* A literal pattern equals, but for case, the relative path without its
\* leading category segment.
LiteralEquals(pattern, p) ==
    /\ pattern.kind = "literal"
    /\ Len(p.dirs) > 0
    /\ Len(PatternSegments(pattern)) = Len(p.dirs) - 1
    /\ \A i \in 1..Len(PatternSegments(pattern)) :
          SameName(PatternSegments(pattern)[i], p.dirs[i + 1])
    /\ SameName(pattern.stem, p.stem)
    /\ pattern.meta = p.meta

\* A regular expression of the model tests true against the whole relative
\* path: /<file name>$/ on a path that ends with the file name, /^<dir>\//
\* on a path that begins with the directory.
RegexMatches(pattern, p) ==
    /\ pattern.kind = "regex"
    /\ IF pattern.stem = ""
       THEN Len(p.dirs) > 0 /\ Head(p.dirs) = Head(pattern.dirs)
       ELSE <<pattern.stem, pattern.meta>> = <<p.stem, p.meta>>

\* C23: isPathException returns true exactly when some pattern of the list
\* matches: a literal that equals, but for case, the relative path without
\* its category segment, or a regular expression that tests true against
\* the whole relative path; it returns false for the empty list.
C23_ExceptionIffSomePatternMatches ==
    (call.fn = "isPathException" /\ call.done) =>
        LET p == call.args.relativePath
            patterns == call.args.exceptions
        IN  call.result =
              (\E i \in 1..Len(patterns) :
                  LiteralEquals(patterns[i], p) \/ RegexMatches(patterns[i], p))

\* A list whose regular expression does not match and whose literal, in
\* another case, does.
C23_Witness ==
    /\ call.fn = "isPathException"
    /\ call.done
    /\ call.result = TRUE
    /\ call.args.exceptions =
          << RegexPattern("foo.cls", TRUE),
             LiteralPattern(<<"ACCOUNT", "Fields">>, "Foo.field", TRUE) >>


\* injectHack has returned to task t with isTest true, with isTest false.
ReturnedIsTest(t) == IsClassFile(NewsFile(t)) /\ tasks[P2][t].hack = "isTest"
ReturnedNoTest(t) ==
    IsClassFile(NewsFile(t)) /\ tasks[P2][t].hack \in {"isNoTest", "isInterface"}

\* The class of task t holds the synthetic method.
Rewritten(t) ==
    /\ IsSanitized(t)
    /\ \E i \in 1..Len(disk[SanitizedPath(t)]) :
          disk[SanitizedPath(t)][i] = "testeXPTO() {"

\* A generated test class and its descriptor are in the directory of the
\* class of task t.
TestPairWritten(t) ==
    \E n \in 0..testClassCount :
        LET testPath == [SanitizedPath(t) EXCEPT !.stem = TestStem(n)]
        IN  /\ testPath \in DOMAIN disk
            /\ fileCounterPath(testPath) \in DOMAIN disk

\* C24: when injectHack has returned isTest true the class is as it was
\* staged; when it has returned isTest false the class holds the synthetic
\* method and the generated test class and its descriptor are written.
C24_InjectionCompleteOnReturn ==
    \A t \in P2Tasks :
        /\ (ReturnedIsTest(t) /\ IsSanitized(t))
              => disk[SanitizedPath(t)] = disk[NewsFile(t)]
        /\ ReturnedNoTest(t) => (Rewritten(t) /\ TestPairWritten(t))

\* The part of C24 that does not wait for the generated files.
C24_RewrittenOnReturn ==
    \A t \in P2Tasks :
        /\ (ReturnedIsTest(t) /\ IsSanitized(t))
              => disk[SanitizedPath(t)] = disk[NewsFile(t)]
        /\ ReturnedNoTest(t) => Rewritten(t)


\* An Apex text from content[i] on without its comments, by the lexical
\* rules of the language: a string literal runs from a single quote to the
\* next single quote that no backslash escapes, a line comment from // to
\* the end of the line, a block comment from /* to the next */.
RECURSIVE UncommentedFrom(_, _, _)
UncommentedFrom(content, i, in) ==
    IF i > Len(content) THEN << >>
    ELSE
      LET c == content[i]
          two == IF i < Len(content) THEN <<c, content[i + 1]>> ELSE <<c>>
      IN  CASE in = "literal" ->
                 IF c = "\\" THEN two \o UncommentedFrom(content, i + 2, in)
                 ELSE IF c = "'" THEN <<c>> \o UncommentedFrom(content, i + 1, "code")
                 ELSE <<c>> \o UncommentedFrom(content, i + 1, in)
            [] in = "line" ->
                 IF c = "\n" THEN <<c>> \o UncommentedFrom(content, i + 1, "code")
                 ELSE UncommentedFrom(content, i + 1, in)
            [] in = "block" ->
                 IF two = <<"*", "/">> THEN UncommentedFrom(content, i + 2, "code")
                 ELSE UncommentedFrom(content, i + 1, in)
            [] OTHER ->
                 IF c = "'" THEN <<c>> \o UncommentedFrom(content, i + 1, "literal")
                 ELSE IF two = <<"/", "/">> THEN UncommentedFrom(content, i + 2, "line")
                 ELSE IF two = <<"/", "*">> THEN UncommentedFrom(content, i + 2, "block")
                 ELSE <<c>> \o UncommentedFrom(content, i + 1, in)

Uncommented(content) == UncommentedFrom(content, 1, "code")

\* C25: removeComments returns the content without its block comments and
\* line comments, with every string literal as it was, escaped quotes
\* included, and with the line break that ends a line comment.
C25_CommentsRemovedLiteralsKept ==
    (call.fn = "removeComments" /\ call.done) =>
        call.result = Uncommented(call.args.content)

\* The content has no backslash.
NoEscape(content) == \A i \in 1..Len(content) : content[i] # "\\"

\* The same for contents without backslash.
C25_WithoutEscapes ==
    (call.fn = "removeComments" /\ call.done /\ NoEscape(call.args.content)) =>
        call.result = Uncommented(call.args.content)


\* The positions of the manifest, from 0, with their separator lines.
ManifestPositions == 0..(Len(PACKAGES) - 1)
IsSeparator(tok) == \E i \in ManifestPositions : tok = Separator(i)

\* The bundles with categories, in manifest order.
NonEmptyBundles == SelectSeq(PACKAGES, LAMBDA pkg : pkg.components # << >>)

\* The label of a bundle: PACKAGE and the number in its name.
LabelOf(pkgName) ==
    CHOOSE i \in ManifestPositions : pkgName = "package" \o ToString(i)

\* The positions of the separator lines in a text, in ascending order.
RECURSIVE SeparatorsFrom(_, _)
SeparatorsFrom(text, i) ==
    IF i > Len(text) THEN << >>
    ELSE (IF IsSeparator(text[i]) THEN <<i>> ELSE << >>)
         \o SeparatorsFrom(text, i + 1)

\* The k-th block of the text lies between two separator lines labelled
\* with the bundle, and holds one command: for the directory of the bundle,
\* with the enumerated tests for package3 and the dummy test for any other.
IsBlockOf(text, seps, k, pkg, specifiedTests) ==
    LET from == seps[2 * k - 1]
        to == seps[2 * k]
        inner == SubSeq(text, from + 1, to - 1)
    IN  /\ text[from] = Separator(LabelOf(pkg.name))
        /\ text[to] = Separator(LabelOf(pkg.name))
        /\ inner = <<"\n",
                     "sf project deploy validate --source-dir ./deploy-staging/packages/"
                        \o pkg.name
                        \o " --source-dir ./DummyTest.cls -l RunSpecifiedTests ">>
                   \o (IF pkg.name = "package3" THEN specifiedTests
                       ELSE <<"-t \"Dummy\"">>)
                   \o <<" --target-org", "\n">>

\* C26: the text of deployCommands.txt holds one block for each bundle of
\* the manifest with categories and none for the others, in manifest order;
\* each block lies between two separator lines labelled with its bundle, and
\* only the block of package3 holds the enumerated tests.
C26_OneBlockPerNonEmptyBundle ==
    (call.fn = "generateDeployCommands" /\ call.done) =>
        LET text == call.result
            seps == SeparatorsFrom(text, 1)
        IN  /\ Len(seps) = 2 * Len(NonEmptyBundles)
            /\ \A k \in 1..Len(NonEmptyBundles) :
                  IsBlockOf(text, seps, k, NonEmptyBundles[k],
                            call.args.specifiedTests)
            /\ \A k \in 1..(Len(NonEmptyBundles) - 1) :
                  SubSeq(text, seps[2 * k] + 1, seps[2 * k + 1] - 1) = <<"\n", "\n">>
            /\ Len(text) > 0 => (seps[1] = 1 /\ seps[Len(seps)] = Len(text))

\* The commands for a specifiedTests.txt that lists two test classes.
C26_Witness ==
    /\ call.fn = "generateDeployCommands"
    /\ call.done
    /\ Len(call.args.specifiedTests) = 5
    /\ Len(SeparatorsFrom(call.result, 1)) = 16



\* The caller of the phase is suspended in waitForAll() and every task it
\* passed to run() has terminated.
AtBarrier(ph) ==
    /\ proc = "running"
    /\ mainPc = At(ph, "wait")
    /\ AllEnded(ph)

\* C27: a caller suspended in waitForAll() whose tasks have all terminated
\* is eventually resumed (or the process has ended), for every number of
\* tasks of the phase, zero included.
C27_WaitForAllEventuallyReturns ==
    \A ph \in Phases :
        AtBarrier(ph) ~> (mainPc # At(ph, "wait") \/ proc # "running")

\* The same for the phases that passed at least one task to run().
C27_ReturnsAfterSomeTask ==
    \A ph \in Phases :
        (AtBarrier(ph) /\ Len(tasks[ph]) > 0)
            ~> (mainPc # At(ph, "wait") \/ proc # "running")


\* The position of task t of the phase; "none" when the phase has no such
\* task.
PcOf(ph, t) == IF t \in DOMAIN tasks[ph] THEN tasks[ph][t].pc ELSE "none"

HasStarted(ph, t) == PcOf(ph, t) \in {"running", "done", "failed"}

\* The tasks a task that ends in this step takes out of the queue.
Dequeued(ph) ==
    {u \in DOMAIN tasks[ph] : tasks[ph][u].pc = "queued" /\ tasks'[ph][u].pc = "woken"}

\* Task t of the phase ends in this step, by success or by failure.
EndsNow(ph, t) ==
    /\ t \in DOMAIN tasks[ph]
    /\ tasks[ph][t].pc = "running"
    /\ tasks'[ph][t].pc \in {"done", "failed"}

SlotFreedOneDequeued(ph) ==
    /\ cm'[ph].currentlyRunning = cm[ph].currentlyRunning - 1
    /\ IF cm[ph].queue # << >>
       THEN /\ cm'[ph].queue = Tail(cm[ph].queue)
            /\ Dequeued(ph) = {Head(cm[ph].queue)}
            /\ \E i \in 1..Len(micro') :
                  /\ micro'[i].k = "resume"
                  /\ micro'[i].ph = ph
                  /\ micro'[i].t = Head(cm[ph].queue)
       ELSE cm'[ph].queue = << >> /\ Dequeued(ph) = {}

\* C28: the step in which a running task ends, by success or by failure,
\* lowers currentlyRunning by one and, when the queue is not empty, takes
\* exactly its first task out and schedules its start; the task taken out
\* starts; a process that has ended with a task in the queue has ended with
\* a started task unterminated; and every task in the queue starts unless
\* the process has ended.
C28_EndedTaskStartsNext ==
    /\ [][\A ph \in Phases : \A t \in 1..MaxTasks :
            EndsNow(ph, t) => SlotFreedOneDequeued(ph)]_vars
    /\ [](\A ph \in Phases :
            (proc # "running" /\ cm[ph].queue # << >>)
                => \E t \in DOMAIN tasks[ph] : tasks[ph][t].pc = "running")
    /\ \A t \in 1..MaxTasks :
            (PcOf(HARNESS, t) = "woken") ~> HasStarted(HARNESS, t)
    /\ \A t \in 1..MaxTasks :
            (PcOf(HARNESS, t) = "queued")
                ~> (HasStarted(HARNESS, t) \/ proc # "running")

\* A task that failed has freed its slot and taken the first of two queued
\* tasks out of the queue.
C28_Witness ==
    \E a, b, c \in DOMAIN tasks[HARNESS] :
        /\ tasks[HARNESS][a].pc = "failed"
        /\ tasks[HARNESS][b].pc = "woken"
        /\ tasks[HARNESS][c].pc = "queued"
        /\ cm[HARNESS].queue = << c >>
        /\ cm[HARNESS].currentlyRunning = 0


\* Task t of the phase has been put in the queue and has not started yet.
Enqueued(ph, t) == PcOf(ph, t) \in {"queued", "woken"}

\* Task t of the phase, which waited in the queue, starts in this step.
StartsFromQueue(ph, t) ==
    /\ PcOf(ph, t) = "woken"
    /\ tasks'[ph][t].pc \in {"running", "done", "failed"}

\* C29: the caller passes its tasks to run() in the order of their numbers;
\* when a task that waited in the queue starts, no task put in the queue
\* before it is still waiting.
C29_QueueIsFifo ==
    [][\A ph \in Phases : \A a, b \in 1..MaxTasks :
         (a < b /\ StartsFromQueue(ph, b)) => ~Enqueued(ph, a)]_vars

\* Two tasks have waited in the queue: the first one passed to run() has
\* been taken out and is the next to start, the second is still in the
\* queue.
C29_Witness ==
    \E b, c \in DOMAIN tasks[HARNESS] :
        /\ b < c
        /\ tasks[HARNESS][b].pc = "woken"
        /\ Len(micro) > 0
        /\ Head(micro).k = "resume"
        /\ Head(micro).t = b
        /\ c \in SeqRange(cm[HARNESS].queue)


\* The tasks of the run.
AllTasks == UNION {{<< ph, t >> : t \in DOMAIN tasks[ph]} : ph \in Phases}

HeldBy(x) == tasks[x[1]][x[2]].held

\* The paths a task passed to the getFileLock call it has returned from and
\* whose write it is about to enter.
AboutToWrite(job) ==
    CASE job.k = "cfLocked" ->
           {CfDestPath(Cur, job.ph, job.t),
            fileCounterPath(CfDestPath(Cur, job.ph, job.t))}
      [] job.k = "p2Locked" -> {Phase2Dest(Cur, job.t)}
      [] OTHER -> {}

\* The writes of files in progress.
PendingWrites == {o \in io : o.op \in {"copy", "writeFile", "unlink"}}

\* C30: no path is held by two tasks, and lockedFiles holds the paths held;
\* a task about to enter its write, and a task whose copy is in progress,
\* holds every path it passed to getFileLock; no two writes in progress
\* have the same destination.
C30_LockMutualExclusion ==
    /\ \A f \in lockedFiles :
          Cardinality({x \in AllTasks : f \in HeldBy(x)}) = 1
    /\ \A x \in AllTasks : HeldBy(x) \subseteq lockedFiles
    /\ \A i \in 1..Len(micro) :
          micro[i].k \in {"cfLocked", "p2Locked"} =>
             AboutToWrite(micro[i]) \subseteq HeldBy(<< micro[i].ph, micro[i].t >>)
    /\ \A o \in io :
          o.op = "copy" =>
             {o.dst, fileCounterPath(o.dst)} \subseteq HeldBy(<< o.ph, o.t >>)
    /\ \A o1, o2 \in PendingWrites : o1.dst = o2.dst => o1 = o2

\* One task copies a file and its companion under their locks while another
\* task, which asked for the companion's path, sleeps in getFileLock.
C30_Witness ==
    \E o \in io, w \in io :
        /\ o.op = "copy"
        /\ w.op = "timer"
        /\ << o.ph, o.t >> # << w.ph, w.t >>
        /\ w.ph = P2
        /\ tasks[P2][w.t].stage = 2
        /\ Phase2Dest(Cur, w.t) \in HeldBy(<< o.ph, o.t >>)


\* Task x sleeps in getFileLock: its timer runs, or is over and the look at
\* lockedFiles is the job to come.
Waiting(x) ==
    \/ \E o \in io : o.op = "timer" /\ o.ph = x[1] /\ o.t = x[2]
    \/ \E i \in 1..Len(micro) :
          micro[i].k = "lockRetry" /\ micro[i].ph = x[1] /\ micro[i].t = x[2]

\* The paths task x passed to the getFileLock call it is in.
Requested(x) ==
    IF x[1] = HARNESS THEN harnessTasks[x[2]].paths
    ELSE IF x[1] = P2 /\ tasks[P2][x[2]].stage = 2 THEN {Phase2Dest(Cur, x[2])}
    ELSE {CfDestPath(Cur, x[1], x[2]), fileCounterPath(CfDestPath(Cur, x[1], x[2]))}

\* Task x takes paths in this step.
TakesNow(x) == tasks'[x[1]][x[2]].held \ HeldBy(x) # {}

\* No task sleeps in getFileLock with a path in its hand.
NoHoldAndWait == \A x \in AllTasks : Waiting(x) => HeldBy(x) = {}

\* A step that takes paths takes all the paths asked for, none of which was
\* held.
TakesAllOrNone ==
    \A x \in AllTasks :
        TakesNow(x) =>
            /\ HeldBy(x) = {}
            /\ tasks'[x[1]][x[2]].held = Requested(x)
            /\ Requested(x) \cap lockedFiles = {}

\* A path caller t asks for is held by a caller that ended without
\* releasing it.
NeverReleased(t) ==
    \E u \in DOMAIN tasks[HARNESS] :
        /\ tasks[HARNESS][u].pc = "failed"
        /\ t \in DOMAIN harnessTasks
        /\ tasks[HARNESS][u].held \cap harnessTasks[t].paths # {}

HasAcquired(t) ==
    /\ t \in DOMAIN tasks[HARNESS]
    /\ \/ tasks[HARNESS][t].held # {}
       \/ tasks[HARNESS][t].pc \in {"done", "failed"}

\* C31: no task sleeps in getFileLock while it holds a path; the step that
\* takes paths takes every path asked for at once and only when none of
\* them is held; and a caller that sleeps in getFileLock acquires unless a
\* path it asks for is held by a caller that never releases it.
C31_NoDeadlock ==
    /\ []NoHoldAndWait
    /\ [][TakesAllOrNone]_vars
    /\ \A t \in 1..MaxTasks :
          Waiting(<< HARNESS, t >>) ~> (HasAcquired(t) \/ NeverReleased(t))

\* Two callers sleep in getFileLock, each asking for a path the third
\* caller holds, and the two requests share a path.
C31_Witness ==
    \E h, a, b \in DOMAIN tasks[HARNESS] :
        /\ a # b
        /\ Waiting(<< HARNESS, a >>)
        /\ Waiting(<< HARNESS, b >>)
        /\ HeldBy(<< HARNESS, h >>) # {}
        /\ harnessTasks[h].ok
        /\ Cardinality(harnessTasks[a].paths) = 2
        /\ harnessTasks[a].paths \cap harnessTasks[b].paths # {}
        /\ harnessTasks[a].paths # harnessTasks[b].paths


\* copyFileWithStructure has returned normally to the task of the job.
CfReturned(job) == job.k = "afterCopy"

\* The task of the job made the copies of the destination itself.
CopiedItself(job) ==
    \E e \in BagToSet(copyLog) :
        e.ph = job.ph /\ e.t = job.t /\ e.dst = CfDestPath(Cur, job.ph, job.t)

\* C32: when copyFileWithStructure has returned normally to a task, the
\* destination of the call is a file of the destination tree.
C32_ReturnedMeansWritten ==
    \A i \in 1..Len(micro) :
        CfReturned(micro[i]) =>
            CfDestPath(Cur, micro[i].ph, micro[i].t) \in DOMAIN disk

\* The same for the calls that made the copies themselves.
C32_WinnerReturnsWritten ==
    \A i \in 1..Len(micro) :
        (CfReturned(micro[i]) /\ CopiedItself(micro[i])) =>
            CfDestPath(Cur, micro[i].ph, micro[i].t) \in DOMAIN disk


\* Task t of Phase 1 has started the propagation of its object's root
\* descriptor (line 829).
Propagating(t) == t \in DOMAIN tasks[P1] /\ tasks[P1][t].stage = 2

\* Task t of Phase 1 made the copy of its own file itself.
CopiedOwnFile(t) ==
    \E e \in BagToSet(copyLog) :
        e.ph = P1 /\ e.t = t /\ e.dst = Rebase(sourceFiles[t], NEWS_DIR)

\* C33: a task of Phase 1 that has started the propagation of the root
\* descriptor has its own file in staging.
C33_PropagationAfterOwnCopy ==
    \A t \in DOMAIN tasks[P1] :
        Propagating(t) => Rebase(sourceFiles[t], NEWS_DIR) \in DOMAIN disk

\* The same for the tasks that made the copy of their file themselves.
C33_PropagationAfterCopyMade ==
    \A t \in DOMAIN tasks[P1] :
        (Propagating(t) /\ CopiedOwnFile(t))
            => Rebase(sourceFiles[t], NEWS_DIR) \in DOMAIN disk


\* Task t of Phase 1 is in, or has left, a copyFileWithStructure call whose
\* file exists and whose companion does not, and the companion copy is
\* settled.
LoneFileCopy(t) ==
    /\ \E e \in BagToSet(copyLog) :
          e.ph = P1 /\ e.t = t /\ e.dst = CfDestPath(Cur, P1, t)
    /\ tasks[P1][t].comp \in {"done", "fail"}
    /\ CfFile(Cur, P1, t) \in DOMAIN disk
    /\ fileCounterPath(CfFile(Cur, P1, t)) \notin DOMAIN disk

\* The copy of the file of that call is in progress.
PrimaryInProgress(t) ==
    \E o \in io : o.op = "copy" /\ o.ph = P1 /\ o.t = t /\ o.primary

\* The call has still to release its locks and return.
ReturnPending(t) ==
    \E i \in 1..Len(micro) :
        micro[i].k = "cfCopied" /\ micro[i].ph = P1 /\ micro[i].t = t

\* C34: in a copyFileWithStructure call of Phase 1 whose file exists and
\* whose companion does not, once the companion copy is settled the task has
\* not failed, the copy of the file is in progress or the file is at its
\* destination with the text of the source, and once the call has returned
\* the task holds neither lock.
C34_CompanionBestEffort ==
    \A t \in DOMAIN tasks[P1] :
        LoneFileCopy(t) =>
            LET dst == CfDestPath(Cur, P1, t)
            IN  /\ tasks[P1][t].pc # "failed"
                /\ tasks[P1][t].prim # "fail"
                /\ \/ PrimaryInProgress(t)
                   \/ /\ tasks[P1][t].prim = "ok"
                      /\ dst \in DOMAIN disk
                      /\ disk[dst] = disk[CfFile(Cur, P1, t)]
                      /\ fileCounterPath(dst) \notin DOMAIN disk
                      /\ ReturnPending(t)
                            \/ HeldBy(<< P1, t >>) \cap {dst, fileCounterPath(dst)} = {}

\* A class without descriptor has been copied, the call has returned and
\* the task has ended without failure.
C34_Witness ==
    \E t \in DOMAIN tasks[P1] :
        /\ LoneFileCopy(t)
        /\ ~sourceFiles[t].meta
        /\ tasks[P1][t].pc = "done"
        /\ Rebase(sourceFiles[t], NEWS_DIR) \in DOMAIN disk
        /\ lockedFiles = {}


\* xmlObj without the node at a position, which is not the root.
WithoutNode(xmlObj, pos) ==
    LET parent == SubSeq(pos, 1, Len(pos) - 1)
        index == pos[Len(pos)]
        node == NodeAt(xmlObj, parent)
    IN  ReplaceAt(xmlObj, parent,
                  [node EXCEPT !.elements =
                      SubSeq(@, 1, index - 1) \o SubSeq(@, index + 1, Len(@))])

RemoveElementReturned == call.fn = "removeElement" /\ call.done

\* C35: a call of removeElement leaves the document unchanged when
\* findElement finds no node of that name, and else leaves the document
\* without the node findElement returns and nothing else changed.
C35_RemovesTheNodeFound ==
    RemoveElementReturned =>
        LET found == findElement(call.args.xmlObj, call.args.nodeName)
        IN  call.result = IF found = << >> THEN call.args.xmlObj
                          ELSE WithoutNode(call.args.xmlObj, found)

\* The same for the documents without a node of that name.
C35_AbsentLeavesUnchanged ==
    (RemoveElementReturned
       /\ findElement(call.args.xmlObj, call.args.nodeName) = << >>)
        => call.result = call.args.xmlObj


\* The names of the elements of a document in document order, each with
\* its depth.
RECURSIVE Outline(_, _)
Outline(elements, depth) ==
    IF elements = << >> THEN << >>
    ELSE << << Head(elements).name, depth >> >>
         \o Outline(Head(elements).elements, depth + 1)
         \o Outline(Tail(elements), depth)

\* The same without the elements of a name and what they hold.
RECURSIVE OutlineWithout(_, _, _)
OutlineWithout(elements, depth, nodeName) ==
    IF elements = << >> THEN << >>
    ELSE (IF Head(elements).name = nodeName THEN << >>
          ELSE << << Head(elements).name, depth >> >>
               \o OutlineWithout(Head(elements).elements, depth + 1, nodeName))
         \o OutlineWithout(Tail(elements), depth, nodeName)

HasNamed(outline, nodeName) ==
    \E i \in 1..Len(outline) : outline[i][1] = nodeName

RemoveElementsReturned == call.fn = "removeElements" /\ call.done

\* C36: after a call of removeElements no element of the document has the
\* name, at any depth; the elements outside the removed ones are all there,
\* in their order and at their depth; and the call has returned true
\* exactly when the document held an element of the name.
C36_RemovesAllReportsAny ==
    RemoveElementsReturned =>
        LET before == call.args.xmlObj.elements
            after == call.result.xmlObj.elements
            nodeName == call.args.nodeName
        IN  /\ ~HasNamed(Outline(after, 1), nodeName)
            /\ Outline(after, 1) = OutlineWithout(before, 1, nodeName)
            /\ call.result.returned = HasNamed(Outline(before, 1), nodeName)

\* The only elements of the name were two levels below the root, in two of
\* its children: both are gone and the call has returned true.
C36_Witness ==
    /\ RemoveElementsReturned
    /\ Len(call.args.xmlObj.elements) = 2
    /\ \A i \in 1..2 :
          /\ call.args.xmlObj.elements[i].name = "FlowDefinition"
          /\ HasNamed(Outline(call.args.xmlObj.elements[i].elements, 2),
                      "activeVersionNumber")
          /\ Len(call.args.xmlObj.elements[i].elements) = 2
    /\ call.result.returned
    /\ \E i \in 1..2 : Len(call.result.xmlObj.elements[i].elements) = 1


\* Task t of Phase 2 is the task of a descriptor outside classes/ whose
\* file is staged too.
PairedDescriptor(t) ==
    /\ t \in P2Tasks
    /\ newsFiles[t].meta
    /\ newsFiles[t].dirs # <<"classes">>
    /\ fileCounterPath(newsFiles[t]) \in SeqRange(newsFiles)

\* The task of the descriptor has written its text, and the task of the
\* file has ended.
BothEnded(t) ==
    /\ tasks[P2][t].pc = "done"
    /\ tasks[P2][t].xml # << >>
    /\ \A u \in P2Tasks :
          newsFiles[u] = fileCounterPath(newsFiles[t]) => Ended(P2, u)
    /\ \A o \in io : o.op = "copy" => o.ph # P2

\* C37: once the task of a staged descriptor outside classes/ has written
\* and the task of its staged file has ended, the sanitized tree holds at
\* the descriptor's destination the text the descriptor's task wrote.
C37_SanitizedTextStays ==
    \A t \in P2Tasks :
        (PairedDescriptor(t) /\ BothEnded(t))
            => disk[Phase2Dest(Cur, t)] = tasks[P2][t].xml

\* The same for the descriptors that no rule changes.
C37_UnchangedTextStays ==
    \A t \in P2Tasks :
        (PairedDescriptor(t) /\ BothEnded(t)
           /\ tasks[P2][t].xml = disk[newsFiles[t]])
            => disk[Phase2Dest(Cur, t)] = tasks[P2][t].xml

\* identifyNewMetadata has returned.
Phase1Returned == mainPc = At(P1, "done")

\* C38: when Phase 1 has returned, no source file that an ignoredPaths
\* pattern of its category matches is in the staging tree.
C38_NoIgnoredFileStaged ==
    Phase1Returned =>
        \A p \in SeqRange(sourceFiles) : IsIgnored(p) => ~Staged(p)

\* What holds: the copies that staged an ignored file were made by the
\* task of another file.
C38_IgnoredFileStagedByOtherTask ==
    \A e \in BagToSet(copyLog) :
        (e.ph = P1 /\ \E p \in SeqRange(sourceFiles) :
                        IsIgnored(p) /\ e.dst = Rebase(p, NEWS_DIR))
            => sourceFiles[e.t] # Rebase(e.dst, SOURCE)

\* The copies of copyFileWithStructure that are in flight.
CopiesInFlight == {o \in io : o.op = "copy"}

\* The ensureDir calls that have not completed.
EnsuresInFlight == {o \in io : o.op = "ensureDir"}

\* C39: while a copy of copyFileWithStructure is in flight the directory of
\* its destination exists: the ensureDir call for it has completed before
\* the copy started.
C39_CopyStartsAfterEnsureDir ==
    \A o \in CopiesInFlight : DirOf(o.dst) \in dirs

\* What holds: a copy starts when the directory is registered, and the
\* ensureDir call of the task that registered it has completed or is in
\* flight.
C39_CopyStartsAfterRegistration ==
    \A o \in CopiesInFlight :
        /\ DirOf(o.dst) \in CREATED_DIRS_SET
        /\ \/ DirOf(o.dst) \in dirs
           \/ \E e \in EnsuresInFlight : e.dst = DirOf(o.dst) /\ e.t # o.t

\* Task t of Phase 2 begins its body in this step.
StartsNow(t) == ~HasStarted(P2, t) /\ PcOf(P2, t)' \in {"running", "done", "failed"}

\* The paths that get an entry in this step.
NewKeys == (DOMAIN originalStates') \ (DOMAIN originalStates)

\* C40: the Original-State record only grows: an entry stays as it was
\* written, a path gets its entry in the step in which the task of that file
\* runs the rules, and had none before.
C40_StatesAppendOnly ==
    [][/\ \A k \in DOMAIN originalStates :
             k \in DOMAIN originalStates' /\ originalStates'[k] = originalStates[k]
       /\ \A k \in NewKeys :
             \E t \in DOMAIN tasks'[P2] : newsFiles'[t] = k /\ StartsNow(t)
       /\ \A t \in DOMAIN tasks[P2] :
             StartsNow(t) => newsFiles[t] \notin DOMAIN originalStates]_vars

\* Two staged files have their entries, written by two tasks of Phase 2
\* that were under way together.
C40_Witness ==
    /\ Cardinality(DOMAIN originalStates) = 2
    /\ \A t \in P2Tasks : PcOf(P2, t) = "running"

=============================================================================
